---- MODULE Spec2Model ----
(***************************************************************************)
(* Retrieval core of OmniRAG: the per-document index store                 *)
(* (app/embedding.py), the document handlers that use it (app/api.py,      *)
(* app/api_enhanced.py, reprocess_documents.py), the answering step        *)
(* (app/rag.py) and the query cache (app/advanced_features_backup/cache.py)*)
(***************************************************************************)
EXTENDS Integers, Sequences, FiniteSets, TLC

(***************************************************************************)
(* Bounds of the model.                                                    *)
(***************************************************************************)
MaxChunks == 2          \* longest chunk list handed to a build
MaxBuilds == 2          \* builds started in one behaviour
MaxSearches == 1        \* searches started in one behaviour
MaxDocs == 2            \* document records created in one behaviour
MaxRebuilds == 2        \* global rebuilds in one behaviour
MaxPuts == 2            \* cache writes attempted in one behaviour
MaxGets == 1            \* cache reads attempted in one behaviour
MaxTime == 1            \* clock ticks in one behaviour
MaxQueries == 2         \* query requests in one behaviour
MaxTokens == 4          \* tokens of a text handed to the chunker
MaxLength == 3          \* largest max_length handed to the chunker
MaxIndexed == 2         \* chunks a searcher is built over
MaxScore == 2           \* largest raw score of a chunk
MaxTopK == 2            \* largest top_k handed to a search
MaxLoads == 2           \* cache reads started step by step in one behaviour

Keys == {"a.pdf", "b.pdf"}          \* os.path.basename of the uploaded files
ContentNames == <<"c1", "c2", "c3">> \* chunk texts
Procs == {"p1", "p2"}               \* concurrent requests / scripts
Queries == {"q1"}

(***************************************************************************)
(* Small helpers.                                                          *)
(***************************************************************************)
Min(a, b) == IF a <= b THEN a ELSE b

\* the chunk lists handed to a build: every length up to MaxChunks, each
\* with three different contents
ChunkLists ==
    {[i \in 1..m |-> ContentNames[((i + s) % 3) + 1]] :
        m \in 0..MaxChunks, s \in 0..2}

Range(s) == {s[i] : i \in 1..Len(s)}

(***************************************************************************)
(* The embedding model: a frozen pure function text -> unit vector.        *)
(* Similarity of a query and a vector is the inner product, in tenths.     *)
(***************************************************************************)
Embed(c) == <<"vec", c>>

Similarity(q, v) == IF v[2] = "c1" THEN 9 ELSE IF v[2] = "c2" THEN 5 ELSE 1

SimilarityThreshold == 1            \* "score > 0.1", in tenths

(***************************************************************************)
(* create_faiss_index_with_metadata, lines 35-74: the parallel lists       *)
(* chunk_contents and chunk_metadata.  Positions are 0-based in the code   *)
(* and 1-based in a TLA+ sequence: record i carries chunk_id i - 1.        *)
(***************************************************************************)
ChunkMetadataMut(chunks, docId, key) ==
    [i \in 1..Len(chunks) |->
        [content |-> chunks[i], chunk_id |-> i, document_id |-> docId,
         source_file |-> key, chunk_index |-> i]]

ChunkMetadata(chunks, docId, key) ==
    [i \in 1..Len(chunks) |->
        [content |-> chunks[i], chunk_id |-> i - 1, document_id |-> docId,
         source_file |-> key, chunk_index |-> i - 1]]

\* lines 82-95: encode every content, normalize, index.add in list order
IndexRows(chunks) == [i \in 1..Len(chunks) |-> Embed(chunks[i])]

NoIndex == [exists |-> FALSE, rows |-> <<>>, build |-> 0]
NoMeta == [exists |-> FALSE, recs |-> <<>>, build |-> 0, strings |-> FALSE]
NoLegacy == [exists |-> FALSE, contents |-> <<>>]
NoUpload == [exists |-> FALSE, chunks |-> <<>>]

(***************************************************************************)
(* Nearest-neighbour lookup of a flat inner-product index                  *)
(* (faiss IndexFlatIP.search): the n most similar rows, best first, equal  *)
(* scores by row order, 0-based positions, padded with position -1 when    *)
(* the index has fewer than n rows.                                        *)
(***************************************************************************)
BestRow(rows, q, taken) ==
    CHOOSE i \in (1..Len(rows)) \ taken :
        \A j \in (1..Len(rows)) \ taken :
            \/ Similarity(q, rows[i]) > Similarity(q, rows[j])
            \/ Similarity(q, rows[i]) = Similarity(q, rows[j]) /\ i <= j

RECURSIVE TopRows(_, _, _, _)
TopRows(rows, q, n, taken) ==
    IF n = 0 THEN <<>>
    ELSE IF Cardinality(taken) >= Len(rows)
         THEN <<-1>> \o TopRows(rows, q, n - 1, taken)
         ELSE LET b == BestRow(rows, q, taken)
              IN <<b - 1>> \o TopRows(rows, q, n - 1, taken \cup {b})

\* list.sort(key=score, reverse=True): descending and stable
RECURSIVE InsertByScore(_, _)
InsertByScore(sorted, r) ==
    IF Len(sorted) = 0 THEN <<r>>
    ELSE IF Head(sorted).score >= r.score
         THEN <<Head(sorted)>> \o InsertByScore(Tail(sorted), r)
         ELSE <<r>> \o sorted

RECURSIVE SortByScore(_)
SortByScore(s) ==
    IF Len(s) = 0 THEN <<>>
    ELSE InsertByScore(SortByScore(SubSeq(s, 1, Len(s) - 1)), s[Len(s)])

FirstK(s, k) == SubSeq(s, 1, Min(k, Len(s)))

(***************************************************************************)
(* search_similar_chunks, lines 146-156: the hits of one document, given   *)
(* the index and the metadata list the search has loaded.                  *)
(***************************************************************************)
DocHits(q, key, rows, recs, k) ==
    LET pos == TopRows(rows, q, Min(k, Len(recs)), {})
        keep == {n \in 1..Len(pos) :
                    /\ pos[n] < Len(recs)
                    /\ pos[n] >= 0
                    /\ Similarity(q, rows[pos[n] + 1]) > SimilarityThreshold}
        hit(n) == [content |-> recs[pos[n] + 1],
                   score |-> Similarity(q, rows[pos[n] + 1]),
                   document |-> key, chunk_index |-> pos[n]]
        F[n \in 0..Len(pos)] ==
            IF n = 0 THEN <<>>
            ELSE IF n \in keep THEN Append(F[n - 1], hit(n)) ELSE F[n - 1]
    IN F[Len(pos)]

(***************************************************************************)
(* The query cache (CacheManager).  A query is a string, modelled as the   *)
(* sequence of its characters; str.lower() and str.strip() are modelled    *)
(* by what they do to it.                                                  *)
(***************************************************************************)
LowerChar(ch) ==
    IF ch = "A" THEN "a" ELSE IF ch = "B" THEN "b"
    ELSE IF ch = "S" THEN "s" ELSE ch

Lower(s) == [i \in 1..Len(s) |-> LowerChar(s[i])]

RECURSIVE LStrip(_)
LStrip(s) == IF Len(s) > 0 /\ Head(s) = " " THEN LStrip(Tail(s)) ELSE s

RECURSIVE RStrip(_)
RStrip(s) ==
    IF Len(s) > 0 /\ s[Len(s)] = " " THEN RStrip(SubSeq(s, 1, Len(s) - 1))
    ELSE s

Strip(s) == RStrip(LStrip(s))

\* sorted(document_ids): ascending, duplicates kept
RECURSIVE InsertInt(_, _)
InsertInt(sorted, x) ==
    IF Len(sorted) = 0 THEN <<x>>
    ELSE IF Head(sorted) <= x
         THEN <<Head(sorted)>> \o InsertInt(Tail(sorted), x)
         ELSE <<x>> \o sorted

RECURSIVE Sorted(_)
Sorted(s) ==
    IF Len(s) = 0 THEN <<>>
    ELSE InsertInt(Sorted(SubSeq(s, 1, Len(s) - 1)), s[Len(s)])

(***************************************************************************)
(* _generate_query_hash and _generate_documents_hash: SHA-256 of the       *)
(* canonical JSON text.  The digest is modelled by the value it is taken   *)
(* of (no collisions).                                                     *)
(***************************************************************************)
QueryHashMut(query, document_ids, k) ==
    [query |-> Strip(Lower(query)), documents |-> document_ids, k |-> k]

QueryHash(query, document_ids, k) ==
    [query |-> Strip(Lower(query)), documents |-> Sorted(document_ids),
     k |-> k]

DocumentsHash(document_ids) == Sorted(document_ids)

\* the filter QueryCache.expires_at > datetime.utcnow()
UnexpiredMut(e, t) == e.expires_at >= t

Unexpired(e, t) == e.expires_at > t

NoLoc == [key |-> "", docId |-> 0, chunks |-> <<>>, build |-> 0,
          query |-> "", paths |-> <<>>, k |-> 0, i |-> 0,
          index |-> NoIndex, results |-> <<>>, pairs |-> <<>>]

NoRet == [op |-> "none", value |-> 0, results |-> <<>>, pairs |-> <<>>]

NoBuilt == [set |-> FALSE, chunks |-> <<>>, value |-> 0]

NoOp == [op |-> "none", query |-> <<>>, docs |-> <<>>, k |-> 0, db |-> "ok",
         at |-> 0, result |-> "None", hit |-> FALSE, hitSeq |-> 0,
         hitExpires |-> 0, stale |-> FALSE, wrote |-> FALSE,
         outcome |-> "none", status |-> 0]

NoPut == [set |-> FALSE, query |-> <<>>, docs |-> <<>>, k |-> 0,
          response |-> "None", seq |-> 0, expires_at |-> 0]

DocIds == 1..MaxDocs

NoChunked == [set |-> FALSE, done |-> FALSE]

NoFound == [set |-> FALSE]

NoAnswered == [set |-> FALSE]

NoReranked == [set |-> FALSE, done |-> FALSE]

NoMemCache == [set |-> FALSE]

NoWordLoop == [set |-> FALSE]

NoTaskManager == [set |-> FALSE]

\* sess: the QueryCache row each session has loaded; served: per row (named
\* by the number of the put that wrote it) the gets that returned it
\* (history); loads: reads started (history)
NoSession == [loaded |-> FALSE, seq |-> 0, hit_count |-> 0]

NoGetting == [sess |-> [p \in Procs |-> NoSession],
              served |-> [n \in 1..MaxPuts |-> 0], loads |-> 0]

VARIABLES
    indexFile,      \* INDEX_DIR/<key>.index
    metaFile,       \* INDEX_DIR/<key>.index.meta
    legacyFile,     \* INDEX_DIR/<key>.index.legacy.meta
    uploadFile,     \* UPLOAD_DIR/<key>: the text, as the chunks it splits into
    documents,      \* the Document table: set of [id, filename]
    nextId,         \* next primary key of the Document table
    globalIndex,    \* faiss_index/index.faiss and index.pkl
    pc,             \* position of each process in its handler
    loc,            \* the handler's local variables
    ret,            \* last value returned to the caller of each process
    cache,          \* the QueryCache table
    now,            \* datetime.utcnow()
    cache_ttl,      \* settings.cache_ttl
    enabled,        \* settings.enable_caching
    queryLog,       \* number of rows of the Query table
    lastOp,         \* the last cache or query operation and its outcome
    builds,         \* number of builds started (history)
    searches,       \* number of searches started (history)
    rebuilds,       \* number of global rebuilds (history)
    puts,           \* number of cache writes attempted (history)
    gets,           \* number of cache reads attempted (history)
    queries,        \* number of query requests received (history)
    lastBuilt,      \* per key: the chunk list of the last build that returned
    deleted,        \* keys whose document was deleted and not uploaded since
    servedDeleted,  \* a search or rebuild used the index of a deleted key
    lastPut,        \* the last entry written, until overwritten or invalidated
    changedAt,      \* per document id: value of puts when it last changed
    chunked,        \* the last chunk_text call: its arguments and its result
    found,          \* the last HybridSearcher.search call and its result
    answered,      \* the last get_answer_with_sources call and its result
    getting,       \* get_cached_response running in each session, step by step
    reranked,      \* the last ReRanker.rerank_results call and its result
    memCache,      \* the InMemoryCache object and its last call
    wordLoop,      \* the loop of _chunk_by_words, iteration by iteration
    taskManager     \* the TaskManager object: tasks and running_tasks

storeVars == <<indexFile, metaFile, legacyFile>>
docVars == <<uploadFile, documents, nextId>>
procVars == <<pc, loc, ret>>
cacheVars == <<cache, now, cache_ttl, enabled, queryLog, lastOp, puts, gets, queries,
               lastPut>>
extVars == <<answered, getting, reranked, memCache, wordLoop, taskManager>>
auxVars == <<chunked, found, extVars>>
vars == <<indexFile, metaFile, legacyFile, uploadFile, documents, nextId,
          globalIndex, pc, loc, ret, cache, now, cache_ttl, enabled, queryLog,
          lastOp, builds, searches, rebuilds, puts, gets, queries, lastBuilt, deleted,
          servedDeleted, lastPut, changedAt, chunked, found, answered,
          getting,
          reranked,
          memCache,
          wordLoop,
          taskManager>>

InitStore ==
    /\ indexFile = [k \in Keys |-> NoIndex]
    /\ metaFile = [k \in Keys |-> NoMeta]
    /\ legacyFile = [k \in Keys |-> NoLegacy]
    /\ uploadFile = [k \in Keys |-> NoUpload]
    /\ documents = {}
    /\ nextId = 1
    /\ globalIndex = [exists |-> FALSE, rows |-> <<>>, recs |-> <<>>]

InitProcs ==
    /\ pc = [p \in Procs |-> "idle"]
    /\ loc = [p \in Procs |-> NoLoc]
    /\ ret = [p \in Procs |-> NoRet]

InitHistory ==
    /\ builds = 0
    /\ searches = 0
    /\ rebuilds = 0
    /\ puts = 0
    /\ gets = 0
    /\ queries = 0
    /\ lastBuilt = [k \in Keys |-> NoBuilt]
    /\ deleted = {}
    /\ servedDeleted = FALSE
    /\ lastPut = NoPut
    /\ changedAt = [d \in DocIds |-> 0]

\* the variables of the later sections, all but the named one
InitExtExcept(name) ==
    /\ (name # "answered" => answered = NoAnswered)
    /\ (name # "getting" => getting = NoGetting)
    /\ (name # "reranked" => reranked = NoReranked)
    /\ (name # "memCache" => memCache = NoMemCache)
    /\ (name # "wordLoop" => wordLoop = NoWordLoop)
    /\ (name # "taskManager" => taskManager = NoTaskManager)

ExtUnchangedExcept(name) ==
    /\ (name # "answered" => UNCHANGED answered)
    /\ (name # "getting" => UNCHANGED getting)
    /\ (name # "reranked" => UNCHANGED reranked)
    /\ (name # "memCache" => UNCHANGED memCache)
    /\ (name # "wordLoop" => UNCHANGED wordLoop)
    /\ (name # "taskManager" => UNCHANGED taskManager)

InitExt == InitExtExcept("")

InitAux ==
    /\ chunked = NoChunked
    /\ found = NoFound
    /\ InitExt

\* config.py: enable_caching = True, cache_ttl = 3600
InitCacheDefault ==
    /\ cache = {}
    /\ now = 0
    /\ cache_ttl = 2
    /\ enabled = TRUE
    /\ queryLog = 0
    /\ lastOp = NoOp

Init == InitStore /\ InitProcs /\ InitHistory /\ InitCacheDefault /\ InitAux

(***************************************************************************)
(* create_faiss_index_with_metadata(file_path, document_id, chunks).       *)
(* Lines 35-95 work on local data only: one step.  An empty chunk list     *)
(* returns 0 before anything is written (lines 77-79); a failing encode    *)
(* raises before anything is written (lines 82, 117-119).                  *)
(***************************************************************************)
DocsOfKey(key) == {d.id : d \in {x \in documents : x.filename = key}}

Stamp(key) ==
    [d \in DocIds |-> IF d \in DocsOfKey(key) THEN puts ELSE changedAt[d]]

CreateIndexStart(p, key, docId, chunks, encodeOk) ==
    /\ builds' = builds + 1
    /\ deleted' = deleted \ {key}
    /\ IF Len(chunks) = 0
       THEN /\ pc' = [pc EXCEPT ![p] = "idle"]
            /\ loc' = [loc EXCEPT ![p] = NoLoc]
            /\ ret' = [ret EXCEPT ![p] = [NoRet EXCEPT !.op = "build"]]
            /\ lastBuilt' = [lastBuilt EXCEPT ![key] =
                                [set |-> TRUE, chunks |-> chunks, value |-> 0]]
            /\ changedAt' = Stamp(key)
       ELSE IF ~encodeOk
       THEN /\ pc' = [pc EXCEPT ![p] = "idle"]
            /\ loc' = [loc EXCEPT ![p] = NoLoc]
            /\ ret' = [ret EXCEPT ![p] = [NoRet EXCEPT !.op = "build_raised"]]
            /\ UNCHANGED <<lastBuilt, changedAt>>
       ELSE /\ pc' = [pc EXCEPT ![p] = "write_index"]
            /\ loc' = [loc EXCEPT ![p] = [NoLoc EXCEPT !.key = key,
                          !.docId = docId, !.chunks = chunks,
                          !.build = builds + 1]]
            /\ ret' = [ret EXCEPT ![p] = NoRet]
            /\ UNCHANGED <<lastBuilt, changedAt>>

\* a direct call of the manager's build with any chunk list
BuildDirect(p, key, docId, chunks, encodeOk) ==
    /\ pc[p] = "idle"
    /\ CreateIndexStart(p, key, docId, chunks, encodeOk)
    /\ UNCHANGED <<storeVars, docVars, globalIndex, cacheVars, searches,
                   rebuilds, servedDeleted, auxVars>>

\* lines 98-99: faiss.write_index(index, index_file)
BuildWriteIndex(p) ==
    /\ pc[p] = "write_index"
    /\ indexFile' = [indexFile EXCEPT ![loc[p].key] =
                        [exists |-> TRUE, rows |-> IndexRows(loc[p].chunks),
                         build |-> loc[p].build]]
    /\ pc' = [pc EXCEPT ![p] = "write_meta"]
    /\ UNCHANGED <<metaFile, legacyFile, docVars, globalIndex, loc, ret,
                   cacheVars, builds, searches, rebuilds, lastBuilt, deleted,
                   servedDeleted, changedAt, auxVars>>

\* lines 102-104: pickle.dump(chunk_metadata, meta_file)
BuildWriteMeta(p) ==
    /\ pc[p] = "write_meta"
    /\ metaFile' = [metaFile EXCEPT ![loc[p].key] =
                        [exists |-> TRUE,
                         recs |-> ChunkMetadata(loc[p].chunks, loc[p].docId,
                                                loc[p].key),
                         build |-> loc[p].build, strings |-> FALSE]]
    /\ pc' = [pc EXCEPT ![p] = "write_legacy"]
    /\ UNCHANGED <<indexFile, legacyFile, docVars, globalIndex, loc, ret,
                   cacheVars, builds, searches, rebuilds, lastBuilt, deleted,
                   servedDeleted, changedAt, auxVars>>

\* lines 107-115: pickle.dump(chunk_contents, legacy_meta_file); return
BuildWriteLegacy(p) ==
    /\ pc[p] = "write_legacy"
    /\ legacyFile' = [legacyFile EXCEPT ![loc[p].key] =
                        [exists |-> TRUE, contents |-> loc[p].chunks]]
    /\ pc' = [pc EXCEPT ![p] = "idle"]
    /\ ret' = [ret EXCEPT ![p] = [NoRet EXCEPT !.op = "build",
                  !.value = Len(loc[p].chunks)]]
    /\ lastBuilt' = [lastBuilt EXCEPT ![loc[p].key] =
                        [set |-> TRUE, chunks |-> loc[p].chunks,
                         value |-> Len(loc[p].chunks)]]
    /\ changedAt' = Stamp(loc[p].key)
    /\ loc' = [loc EXCEPT ![p] = NoLoc]
    /\ UNCHANGED <<indexFile, metaFile, docVars, globalIndex, cacheVars,
                   builds, searches, rebuilds, deleted, servedDeleted, auxVars>>

(***************************************************************************)
(* search_similar_chunks(query, doc_paths, k): the loop over doc_paths     *)
(* reads the index file and then the metadata file of each document.       *)
(***************************************************************************)
SearchStart(p, q, paths, k) ==
    /\ pc[p] = "idle"
    /\ searches' = searches + 1
    /\ pc' = [pc EXCEPT ![p] = "search_index"]
    /\ loc' = [loc EXCEPT ![p] = [NoLoc EXCEPT !.query = q, !.paths = paths,
                  !.k = k, !.i = 1]]
    /\ ret' = [ret EXCEPT ![p] = NoRet]
    /\ UNCHANGED <<storeVars, docVars, globalIndex, cacheVars, builds,
                   rebuilds, lastBuilt, deleted, servedDeleted, changedAt, auxVars>>

\* lines 130-138 for one document, or lines 162-169 after the last one
SearchReadIndex(p) ==
    /\ pc[p] = "search_index"
    /\ IF loc[p].i > Len(loc[p].paths)
       THEN /\ pc' = [pc EXCEPT ![p] = "idle"]
            /\ ret' = [ret EXCEPT ![p] = [NoRet EXCEPT !.op = "search",
                          !.results = FirstK(SortByScore(loc[p].results),
                                             loc[p].k),
                          !.pairs = loc[p].pairs]]
            /\ loc' = [loc EXCEPT ![p] = NoLoc]
       ELSE /\ IF indexFile[loc[p].paths[loc[p].i]].exists
               THEN /\ pc' = [pc EXCEPT ![p] = "search_meta"]
                    /\ loc' = [loc EXCEPT ![p].index =
                                  indexFile[loc[p].paths[loc[p].i]]]
               ELSE /\ pc' = pc
                    /\ loc' = [loc EXCEPT ![p].i = loc[p].i + 1]
            /\ ret' = ret
    /\ UNCHANGED <<storeVars, docVars, globalIndex, cacheVars, builds,
                   searches, rebuilds, lastBuilt, deleted, servedDeleted,
                   changedAt, auxVars>>

\* lines 141-160: a missing metadata file raises, is logged and skipped
SearchReadMeta(p) ==
    /\ pc[p] = "search_meta"
    /\ LET key == loc[p].paths[loc[p].i]
           meta == metaFile[key]
           hits == DocHits(loc[p].query, key, loc[p].index.rows, meta.recs,
                           loc[p].k)
       IN IF meta.exists
          THEN /\ loc' = [loc EXCEPT ![p].i = loc[p].i + 1,
                             ![p].index = NoIndex,
                             ![p].results = loc[p].results \o hits,
                             ![p].pairs = Append(loc[p].pairs,
                                 [key |-> key, index |-> loc[p].index.build,
                                  meta |-> meta.build])]
               /\ servedDeleted' =
                      (servedDeleted \/ (key \in deleted /\ Len(hits) > 0))
          ELSE /\ loc' = [loc EXCEPT ![p].i = loc[p].i + 1,
                             ![p].index = NoIndex]
               /\ UNCHANGED servedDeleted
    /\ pc' = [pc EXCEPT ![p] = "search_index"]
    /\ UNCHANGED <<storeVars, docVars, globalIndex, ret, cacheVars, builds,
                   searches, rebuilds, lastBuilt, deleted, changedAt, auxVars>>

(***************************************************************************)
(* create_global_faiss_index: merge every per-document index that has a    *)
(* metadata file, in directory-listing order.                              *)
(***************************************************************************)
\* lines 203-247: the records normalised to the fixed schema
CleanedMetadata(meta, key) ==
    [i \in 1..Len(meta.recs) |->
        IF meta.strings
        THEN [content |-> meta.recs[i].content, chunk_id |-> i - 1,
              document_id |-> 0, source_file |-> key, chunk_index |-> i - 1]
        ELSE [content |-> meta.recs[i].content,
              chunk_id |-> meta.recs[i].chunk_id,
              document_id |-> meta.recs[i].document_id,
              source_file |-> meta.recs[i].source_file,
              chunk_index |-> meta.recs[i].chunk_index]]

UsableMut(key) == TRUE

Usable(key) == indexFile[key].exists /\ metaFile[key].exists

RECURSIVE MergedRows(_)
MergedRows(order) ==
    IF Len(order) = 0 THEN <<>>
    ELSE (IF Usable(Head(order)) THEN indexFile[Head(order)].rows ELSE <<>>)
         \o MergedRows(Tail(order))

RECURSIVE MergedMetadata(_)
MergedMetadata(order) ==
    IF Len(order) = 0 THEN <<>>
    ELSE (IF Usable(Head(order))
          THEN CleanedMetadata(metaFile[Head(order)], Head(order))
          ELSE <<>>)
         \o MergedMetadata(Tail(order))

KeyOrders == {<<"a.pdf", "b.pdf">>, <<"b.pdf", "a.pdf">>}

GlobalRebuild(p, order) ==
    /\ pc[p] = "idle"
    /\ rebuilds' = rebuilds + 1
    /\ IF \E key \in Keys : Usable(key)
       THEN /\ globalIndex' = [exists |-> TRUE, rows |-> MergedRows(order),
                               recs |-> MergedMetadata(order)]
            /\ ret' = [ret EXCEPT ![p] = [NoRet EXCEPT !.op = "rebuild",
                          !.value = Len(MergedMetadata(order))]]
       ELSE /\ UNCHANGED globalIndex
            /\ ret' = [ret EXCEPT ![p] = [NoRet EXCEPT !.op = "rebuild"]]
    /\ servedDeleted' =
          (servedDeleted \/ \E key \in deleted : Usable(key))
    /\ UNCHANGED <<storeVars, docVars, pc, loc, cacheVars, builds, searches,
                   lastBuilt, deleted, changedAt, auxVars>>

(***************************************************************************)
(* The cache operations, as functions of the table.                        *)
(***************************************************************************)
\* get_cached_response, lines 34-55: the entry a get returns, if any
CacheHits(c, query, document_ids, k, db) ==
    IF ~enabled \/ db # "ok" THEN {}
    ELSE {e \in c : /\ e.query_hash = QueryHash(query, document_ids, k)
                    /\ Unexpired(e, now)}

\* lines 45-48: hit_count += 1; commit
AfterGet(c, query, document_ids, k, db) ==
    LET hits == CacheHits(c, query, document_ids, k, db)
    IN (c \ hits) \cup {[e EXCEPT !.hit_count = e.hit_count + 1] : e \in hits}

\* cache_response, lines 84-86: a failing session is rolled back
PutFailedMut(c, h) == {e \in c : e.query_hash # h}

PutFailed(c, h) == c

\* cache_response, lines 59-86
AfterPut(c, query, response, document_ids, k, db) ==
    LET h == QueryHash(query, document_ids, k)
    IN IF ~enabled \/ db = "none" THEN c
       ELSE IF db = "fail" THEN PutFailed(c, h)
       ELSE {e \in c : e.query_hash # h} \cup
            {[query_hash |-> h, query_text |-> query,
              response_text |-> response,
              documents_hash |-> DocumentsHash(document_ids),
              expires_at |-> now + cache_ttl, hit_count |-> 0,
              seq |-> puts + 1]}

\* invalidate_document_cache, lines 90-102
AfterInvalidate(c, document_ids, db) ==
    IF ~enabled \/ db # "ok" THEN c
    ELSE {e \in c : e.documents_hash # DocumentsHash(document_ids)}

(***************************************************************************)
(* The document handlers.                                                  *)
(***************************************************************************)
\* api.py upload_files, lines 35-93, for one file of the request
UploadBasic(p, key, chunks, extractOk, encodeOk) ==
    /\ pc[p] = "idle"
    /\ Len(chunks) > 0
    /\ IF extractOk
       THEN /\ uploadFile' = [uploadFile EXCEPT ![key] =
                                 [exists |-> TRUE, chunks |-> chunks]]
            /\ documents' = documents \cup {[id |-> nextId, filename |-> key]}
            /\ nextId' = nextId + 1
            /\ CreateIndexStart(p, key, nextId, chunks, encodeOk)
       ELSE /\ uploadFile' = [uploadFile EXCEPT ![key] = NoUpload]
            /\ ret' = [ret EXCEPT ![p] = [NoRet EXCEPT !.op = "upload_error"]]
            /\ UNCHANGED <<documents, nextId, deleted, pc, loc, builds,
                           lastBuilt, changedAt>>
    /\ UNCHANGED <<storeVars, globalIndex, cacheVars, searches, rebuilds,
                   servedDeleted, auxVars>>

\* hash(pdf_file) % 10000, the dummy id the reprocessing script uses
HashId(key) == IF key = "a.pdf" THEN 11 ELSE 12

\* reprocess_documents.py, lines 32-91, for one file of the uploads folder
Reprocess(p, key, encodeOk) ==
    /\ pc[p] = "idle"
    /\ uploadFile[key].exists
    /\ CreateIndexStart(p, key, HashId(key), uploadFile[key].chunks, encodeOk)
    /\ UNCHANGED <<storeVars, docVars, globalIndex, cacheVars, searches,
                   rebuilds, servedDeleted, auxVars>>

DocOf(docId) == CHOOSE d \in documents : d.id = docId

OthersShareKey(docId) ==
    \E d \in documents : d.id # docId /\ d.filename = DocOf(docId).filename

\* api.py delete_document, lines 251-296
DeleteBasic(p, docId) ==
    /\ pc[p] = "idle"
    /\ \E d \in documents : d.id = docId
    /\ LET key == DocOf(docId).filename
       IN /\ indexFile' = [indexFile EXCEPT ![key] = NoIndex]
          /\ metaFile' = [metaFile EXCEPT ![key] = NoMeta]
          /\ uploadFile' = [uploadFile EXCEPT ![key] = NoUpload]
          /\ documents' = documents \ {DocOf(docId)}
          /\ deleted' = IF OthersShareKey(docId) THEN deleted
                        ELSE deleted \cup {key}
          /\ lastBuilt' = [lastBuilt EXCEPT ![key] = NoBuilt]
    /\ ret' = [ret EXCEPT ![p] = [NoRet EXCEPT !.op = "delete"]]
    /\ changedAt' = [changedAt EXCEPT ![docId] = puts]
    /\ UNCHANGED <<legacyFile, nextId, globalIndex, pc, loc, cacheVars,
                   builds, searches, rebuilds, servedDeleted, auxVars>>

\* api_enhanced.py delete_document, lines 519-542
DeleteEnhanced(p, docId, db) ==
    /\ pc[p] = "idle"
    /\ \E d \in documents : d.id = docId
    /\ LET key == DocOf(docId).filename
       IN /\ uploadFile' = [uploadFile EXCEPT ![key] = NoUpload]
          /\ documents' = documents \ {DocOf(docId)}
          /\ deleted' = IF OthersShareKey(docId) THEN deleted
                        ELSE deleted \cup {key}
    /\ cache' = AfterInvalidate(cache, <<docId>>, db)
    /\ lastOp' = [NoOp EXCEPT !.op = "invalidate", !.docs = <<docId>>,
                     !.db = db]
    /\ lastPut' = NoPut
    /\ ret' = [ret EXCEPT ![p] = [NoRet EXCEPT !.op = "delete"]]
    /\ changedAt' = [changedAt EXCEPT ![docId] = puts]
    /\ UNCHANGED <<storeVars, nextId, globalIndex, pc, loc, now, cache_ttl,
                   enabled, queryLog, puts, gets, queries, builds, searches, rebuilds,
                   lastBuilt, servedDeleted, auxVars>>

(***************************************************************************)
(* The cache operations as requests (SpecCache calls them directly).       *)
(***************************************************************************)
TheHit(hits) == CHOOSE e \in hits : TRUE

CacheGet(query, document_ids, k, db) ==
    /\ gets' = gets + 1
    /\ LET hits == CacheHits(cache, query, document_ids, k, db)
       IN /\ cache' = AfterGet(cache, query, document_ids, k, db)
          /\ lastOp' = IF hits = {}
                THEN [NoOp EXCEPT !.op = "get", !.query = query,
                         !.docs = document_ids, !.k = k, !.db = db,
                         !.at = now]
                ELSE [NoOp EXCEPT !.op = "get", !.query = query,
                         !.docs = document_ids, !.k = k, !.db = db,
                         !.at = now, !.hit = TRUE,
                         !.result = TheHit(hits).response_text,
                         !.hitSeq = TheHit(hits).seq,
                         !.hitExpires = TheHit(hits).expires_at]
    /\ UNCHANGED <<storeVars, docVars, globalIndex, procVars, now, cache_ttl,
                   enabled, queryLog, puts, queries, lastPut, builds,
                   searches, rebuilds, lastBuilt, deleted, servedDeleted,
                   changedAt, auxVars>>

CachePut(query, response, document_ids, k, db) ==
    /\ puts' = puts + 1
    /\ cache' = AfterPut(cache, query, response, document_ids, k, db)
    /\ lastOp' = [NoOp EXCEPT !.op = "put", !.query = query,
                     !.docs = document_ids, !.k = k, !.db = db, !.at = now,
                     !.wrote = (enabled /\ db = "ok")]
    /\ lastPut' = IF enabled /\ db = "ok"
                  THEN [set |-> TRUE, query |-> query, docs |-> document_ids,
                        k |-> k, response |-> response, seq |-> puts + 1,
                        expires_at |-> now + cache_ttl]
                  ELSE lastPut
    /\ UNCHANGED <<storeVars, docVars, globalIndex, procVars, now, cache_ttl,
                   enabled, queryLog, gets, queries, builds, searches, rebuilds,
                   lastBuilt, deleted, servedDeleted, changedAt, auxVars>>

CacheInvalidate(document_ids, db) ==
    /\ cache' = AfterInvalidate(cache, document_ids, db)
    /\ lastOp' = [NoOp EXCEPT !.op = "invalidate", !.docs = document_ids,
                     !.db = db, !.at = now]
    /\ lastPut' = IF enabled /\ db = "ok" THEN NoPut ELSE lastPut
    /\ UNCHANGED <<storeVars, docVars, globalIndex, procVars, now, cache_ttl,
                   enabled, queryLog, puts, gets, queries, builds, searches, rebuilds,
                   lastBuilt, deleted, servedDeleted, changedAt, auxVars>>

\* clear_expired_cache, lines 104-114
ClearExpired(db) ==
    /\ cache' = IF db = "ok" THEN {e \in cache : ~(e.expires_at <= now)}
                ELSE cache
    /\ lastOp' = [NoOp EXCEPT !.op = "clear", !.db = db, !.at = now]
    /\ UNCHANGED <<storeVars, docVars, globalIndex, procVars, now, cache_ttl,
                   enabled, queryLog, puts, gets, queries, lastPut, builds, searches,
                   rebuilds, lastBuilt, deleted, servedDeleted, changedAt, auxVars>>

\* the clock moves between requests
Tick ==
    /\ now' = now + 1
    /\ UNCHANGED <<storeVars, docVars, globalIndex, procVars, cache,
                   cache_ttl, enabled, queryLog, lastOp, puts, gets, queries, lastPut,
                   builds, searches, rebuilds, lastBuilt, deleted,
                   servedDeleted, changedAt, auxVars>>

(***************************************************************************)
(* rag.get_answer(query, doc_paths, k), lines 56-109.                      *)
(***************************************************************************)
\* line 73: [chunks[i] for i in indices[0] if i < len(chunks)]; a negative
\* position counts from the end of the list
RECURSIVE RelevantChunks(_, _, _)
RelevantChunks(pos, recs, strings) ==
    IF Len(pos) = 0 THEN <<>>
    ELSE LET i == Head(pos)
             rest == RelevantChunks(Tail(pos), recs, strings)
         IN IF i < Len(recs)
            THEN <<[chunk |-> IF i < 0 THEN recs[Len(recs) + i + 1]
                              ELSE recs[i + 1],
                    isStr |-> strings]>> \o rest
            ELSE rest

\* lines 62-74: the documents that have an index file, in list order
RECURSIVE AllChunks(_, _, _)
AllChunks(doc_paths, query, k) ==
    IF Len(doc_paths) = 0 THEN <<>>
    ELSE LET key == Head(doc_paths)
             rest == AllChunks(Tail(doc_paths), query, k)
         IN IF ~indexFile[key].exists THEN rest
            ELSE RelevantChunks(TopRows(indexFile[key].rows, query, k, {}),
                                metaFile[key].recs,
                                metaFile[key].strings) \o rest

\* line 68 opens the metadata file of every index it finds; line 73 indexes
\* the list it read; line 80 joins the chunks as strings
GetAnswerRaises(doc_paths, query, k) ==
    \/ \E n \in 1..Len(doc_paths) :
          /\ indexFile[doc_paths[n]].exists
          /\ \/ ~metaFile[doc_paths[n]].exists
             \/ Len(metaFile[doc_paths[n]].recs) = 0
    \/ \E c \in Range(AllChunks(doc_paths, query, k)) : ~c.isStr

\* the exception that leaves get_answer: the metadata file of an index is
\* opened (line 68) and the list indexed (line 73) inside the loop, the join
\* of line 80 comes after it
GetAnswerError(doc_paths, query, k) ==
    IF \E n \in 1..Len(doc_paths) :
          indexFile[doc_paths[n]].exists /\ ~metaFile[doc_paths[n]].exists
    THEN "FileNotFoundError"
    ELSE IF \E n \in 1..Len(doc_paths) :
               /\ indexFile[doc_paths[n]].exists
               /\ Len(metaFile[doc_paths[n]].recs) = 0
         THEN "IndexError"
         ELSE "TypeError"

\* llm: what the generative-model call does, "answer", "no_key" (line 96)
\* or "api_error" (lines 107-109)
GetAnswer(query, doc_paths, k, llm) ==
    IF GetAnswerRaises(doc_paths, query, k)
    THEN [raised |-> TRUE, text |-> GetAnswerError(doc_paths, query, k)]
    ELSE IF Len(AllChunks(doc_paths, query, k)) = 0
         THEN [raised |-> FALSE, text |-> "no_content"]
         ELSE [raised |-> FALSE, text |-> llm]

(***************************************************************************)
(* SecurityValidator.validate_query.                                       *)
(***************************************************************************)
MaxQueryChars == 5000

\* '<script', 'javascript:', 'data:', 'vbscript:'
DangerousPatterns ==
    {<<"<", "s", "c", "r", "i", "p", "t">>,
     <<"j", "a", "v", "a", "s", "c", "r", "i", "p", "t", ":">>,
     <<"d", "a", "t", "a", ":">>,
     <<"v", "b", "s", "c", "r", "i", "p", "t", ":">>}

\* pattern in query_lower
Contains(s, pattern) ==
    \E i \in 0..(Len(s) - Len(pattern)) :
        SubSeq(s, i + 1, i + Len(pattern)) = pattern

ValidateQuery(query) ==
    IF Len(query) = 0 \/ Len(Strip(query)) = 0 THEN FALSE
    ELSE IF Len(query) > MaxQueryChars THEN FALSE
    ELSE \A pattern \in DangerousPatterns : ~Contains(Lower(query), pattern)

(***************************************************************************)
(* api_enhanced.query_documents, lines 314-432 (synchronous branch).       *)
(***************************************************************************)
RECURSIVE SeqOfSet(_)
SeqOfSet(S) ==
    IF S = {} THEN <<>>
    ELSE LET m == CHOOSE x \in S : \A y \in S : x <= y
         IN <<m>> \o SeqOfSet(S \ {m})

QueryRequest(query, k, use_cache, llm, db) ==
    LET document_ids == SeqOfSet({d.id : d \in documents})
        doc_paths == [n \in 1..Len(document_ids) |->
                         DocOf(document_ids[n]).filename]
        hits == IF use_cache
                THEN CacheHits(cache, query, document_ids, k, db) ELSE {}
        answer == GetAnswer(query, doc_paths, k, llm)
        req == [NoOp EXCEPT !.op = "query", !.query = query,
                   !.docs = document_ids, !.k = k, !.db = db, !.at = now]
        stores == use_cache /\ enabled /\ db = "ok"
    IN /\ queries' = queries + 1
       /\ IF ~ValidateQuery(query)
          THEN /\ lastOp' = [req EXCEPT !.docs = <<>>, !.status = 400,
                                !.outcome = "invalid"]
               /\ UNCHANGED <<cache, queryLog, puts, gets, lastPut>>
          ELSE IF documents = {}
          THEN /\ lastOp' = [req EXCEPT !.status = 400]
               /\ UNCHANGED <<cache, queryLog, puts, gets, lastPut>>
          ELSE IF hits # {}
          THEN /\ cache' = AfterGet(cache, query, document_ids, k, db)
               /\ gets' = gets + 1
               /\ lastOp' = [req EXCEPT !.status = 200, !.hit = TRUE,
                    !.outcome = "cached",
                    !.result = TheHit(hits).response_text,
                    !.hitSeq = TheHit(hits).seq,
                    !.hitExpires = TheHit(hits).expires_at,
                    !.stale = \E d \in Range(document_ids) :
                                 changedAt[d] >= TheHit(hits).seq]
               /\ UNCHANGED <<queryLog, puts, lastPut>>
          ELSE IF answer.raised
          THEN /\ gets' = IF use_cache THEN gets + 1 ELSE gets
               /\ lastOp' = [req EXCEPT !.status = 500, !.outcome = "raised",
                                !.result = answer.text]
               /\ UNCHANGED <<cache, queryLog, puts, lastPut>>
          ELSE /\ gets' = IF use_cache THEN gets + 1 ELSE gets
               /\ cache' = IF use_cache
                           THEN AfterPut(cache, query, answer.text,
                                         document_ids, k, db)
                           ELSE cache
               /\ puts' = IF use_cache THEN puts + 1 ELSE puts
               /\ queryLog' = queryLog + 1
               /\ lastOp' = [req EXCEPT !.status = 200,
                                !.outcome = answer.text,
                                !.result = answer.text, !.wrote = stores]
               /\ lastPut' = IF stores
                     THEN [set |-> TRUE, query |-> query,
                           docs |-> document_ids, k |-> k,
                           response |-> answer.text, seq |-> puts + 1,
                           expires_at |-> now + cache_ttl]
                     ELSE lastPut
       /\ UNCHANGED <<storeVars, docVars, globalIndex, procVars, now,
                      cache_ttl, enabled, builds, searches, rebuilds,
                      lastBuilt, deleted, servedDeleted, changedAt, auxVars>>

(***************************************************************************)
(* api.query_documents, lines 106-136 (POST /query of the main app).       *)
(* get_answer(query, k) hands k over as doc_paths: get_answer wraps the    *)
(* integer in a list (rag.py lines 57-58) and os.path.basename(k) raises   *)
(* TypeError at line 63; the handler turns every exception into a 500.     *)
(* The query is not validated and the Query row is not reached.            *)
(***************************************************************************)
QueryBasic(query, k) ==
    /\ queries' = queries + 1
    /\ lastOp' = [NoOp EXCEPT !.op = "query_basic", !.query = query,
                     !.k = k, !.at = now, !.status = 500,
                     !.outcome = "raised", !.result = "TypeError"]
    /\ UNCHANGED <<storeVars, docVars, globalIndex, procVars, cache, now,
                   cache_ttl, enabled, queryLog, puts, gets, lastPut, builds,
                   searches, rebuilds, lastBuilt, deleted, servedDeleted,
                   changedAt, auxVars>>

PathLists == {<<"a.pdf">>, <<"a.pdf", "b.pdf">>}

(***************************************************************************)
(* utils.chunk_text.  A text is a sequence of whitespace-separated         *)
(* tokens: a word of n characters with or without a sentence terminator    *)
(* attached ("dog", "dog."), a token of special characters only ("#"),     *)
(* or a blank line.  A string is kept as the sequence of its tokens.       *)
(***************************************************************************)
Word(w, n, end) == [kind |-> "word", w |-> w, n |-> n, end |-> end]

RawTokens ==
    {Word("ab", 2, FALSE), Word("cd", 2, TRUE),
     Word("abcdefghijk", 11, TRUE),
     [kind |-> "special", w |-> "#", n |-> 1, end |-> FALSE],
     [kind |-> "break", w |-> "\n\n", n |-> 2, end |-> FALSE]}

Texts == UNION {[1..m -> RawTokens] : m \in 0..MaxTokens}

\* str.strip() of a cleaned text: the empty tokens at both ends go
RECURSIVE LStripTokens(_)
LStripTokens(t) ==
    IF Len(t) > 0 /\ Head(t).n = 0 /\ ~Head(t).end THEN LStripTokens(Tail(t))
    ELSE t

RECURSIVE RStripTokens(_)
RStripTokens(t) ==
    IF Len(t) > 0 /\ t[Len(t)].n = 0 /\ ~t[Len(t)].end
    THEN RStripTokens(SubSeq(t, 1, Len(t) - 1))
    ELSE t

StripTokens(t) == RStripTokens(LStripTokens(t))

\* TextProcessor.clean_text, lines 14-26: runs of whitespace (blank lines
\* included) become one space, special characters are deleted, then strip()
CleanText(text) ==
    LET spaced == SelectSeq(text, LAMBDA t : t.kind # "break")
        kept == [i \in 1..Len(spaced) |->
                    IF spaced[i].kind = "special" THEN Word("", 0, FALSE)
                    ELSE spaced[i]]
    IN StripTokens(kept)

\* len() of a string: the characters of the tokens and one space between
\* two tokens (a blank line is its own separator)
RECURSIVE CharCount(_)
CharCount(t) ==
    IF Len(t) = 0 THEN 0
    ELSE Head(t).n + (IF Head(t).end THEN 1 ELSE 0)
         + (IF Len(t) > 1 /\ Head(t).kind # "break" /\ t[2].kind # "break"
            THEN 1 ELSE 0)
         + CharCount(Tail(t))

\* str.split(): the non-empty tokens
Split(t) == SelectSeq(t, LAMBDA x : x.n > 0 \/ x.end)

ShortTextLimit == 10

SampleText ==
    <<Word("Sample", 6, FALSE), Word("document", 8, FALSE),
      Word("content", 7, FALSE), Word("for", 3, FALSE),
      Word("testing", 7, FALSE), Word("purposes", 8, TRUE)>>

\* chunk_text, lines 49-56: the text the strategies work on
GuardedText(text) ==
    IF CharCount(StripTokens(CleanText(text))) < ShortTextLimit
       /\ CharCount(StripTokens(CleanText(text))) = 0
    THEN SampleText
    ELSE CleanText(text)

RECURSIVE WordWindowsMut(_, _, _, _)
WordWindowsMut(words, start, max_length, overlap) ==
    IF ~(start < Len(words)) THEN <<>>
    ELSE LET end == Min(start + max_length, Len(words))
         IN <<SubSeq(words, start + 1, end)>> \o
            (IF end >= Len(words) THEN <<>>
             ELSE WordWindowsMut(words, start + max_length, max_length,
                                 overlap))

\* _chunk_by_words, lines 81-97; start is 0-based, a chunk is words[start:end]
RECURSIVE WordWindows(_, _, _, _)
WordWindows(words, start, max_length, overlap) ==
    IF ~(start < Len(words)) THEN <<>>
    ELSE LET end == Min(start + max_length, Len(words))
         IN <<SubSeq(words, start + 1, end)>> \o
            (IF end >= Len(words) THEN <<>>
             ELSE WordWindows(words, start + max_length - overlap,
                              max_length, overlap))

ChunkByWordsMut(text, max_length, overlap) ==
    WordWindows(Split(text), 1, max_length, overlap)

ChunkByWords(text, max_length, overlap) ==
    WordWindows(Split(text), 0, max_length, overlap)

MinSentenceChars == 10

\* re.split(r'[.!?]+', text): the pieces between sentence terminators
RECURSIVE Pieces(_, _)
Pieces(t, cur) ==
    IF Len(t) = 0 THEN <<cur>>
    ELSE IF Head(t).end
         THEN <<Append(cur, [Head(t) EXCEPT !.end = FALSE])>>
              \o Pieces(Tail(t), <<>>)
         ELSE Pieces(Tail(t), Append(cur, Head(t)))

\* TextProcessor.extract_sentences, lines 29-33
ExtractSentences(text) ==
    LET pieces == Pieces(text, <<>>)
        stripped == [i \in 1..Len(pieces) |-> StripTokens(pieces[i])]
    IN SelectSeq(stripped, LAMBDA p : CharCount(p) > MinSentenceChars)

\* " ".join(units)
RECURSIVE Join(_)
Join(units) ==
    IF Len(units) = 0 THEN <<>> ELSE Head(units) \o Join(Tail(units))

\* lines 113-120: the trailing sentences that fit in overlap words
RECURSIVE OverlapSentences(_, _, _, _, _)
OverlapSentences(current_chunk, i, kept, overlap_length, overlap) ==
    IF i = 0 THEN kept
    ELSE IF overlap_length + Len(Split(current_chunk[i])) <= overlap
         THEN OverlapSentences(current_chunk, i - 1,
                  <<current_chunk[i]>> \o kept,
                  overlap_length + Len(Split(current_chunk[i])), overlap)
         ELSE kept

\* lines 106-131: the loop over the sentences from position i on
RECURSIVE SentenceLoop(_, _, _, _, _, _)
SentenceLoop(sentences, i, chunks, current_chunk, max_length, overlap) ==
    IF i > Len(sentences)
    THEN IF Len(current_chunk) > 0 THEN Append(chunks, Join(current_chunk))
         ELSE chunks
    ELSE LET sentence == sentences[i]
             current_length == Len(Split(Join(current_chunk)))
             kept == OverlapSentences(current_chunk, Len(current_chunk),
                                      <<>>, 0, overlap)
         IN IF current_length + Len(Split(sentence)) > max_length
               /\ Len(current_chunk) > 0
            THEN SentenceLoop(sentences, i + 1,
                     Append(chunks, Join(current_chunk)),
                     Append(kept, sentence), max_length, overlap)
            ELSE SentenceLoop(sentences, i + 1, chunks,
                     Append(current_chunk, sentence), max_length, overlap)

\* _chunk_by_sentences, lines 99-133
ChunkBySentences(text, max_length, overlap) ==
    SentenceLoop(ExtractSentences(text), 1, <<>>, <<>>, max_length, overlap)

\* text.split('\n\n'), stripped, the empty ones dropped (line 137)
RECURSIVE BlankLineSplit(_, _)
BlankLineSplit(t, cur) ==
    IF Len(t) = 0 THEN <<cur>>
    ELSE IF Head(t).kind = "break"
         THEN <<cur>> \o BlankLineSplit(Tail(t), <<>>)
         ELSE BlankLineSplit(Tail(t), Append(cur, Head(t)))

Paragraphs(text) ==
    LET parts == BlankLineSplit(text, <<>>)
        stripped == [i \in 1..Len(parts) |-> StripTokens(parts[i])]
    IN SelectSeq(stripped, LAMBDA p : Len(p) > 0)

\* "\n\n".join(units)
RECURSIVE JoinParagraphs(_)
JoinParagraphs(units) ==
    IF Len(units) = 0 THEN <<>>
    ELSE IF Len(units) = 1 THEN Head(units)
    ELSE Head(units)
         \o <<[kind |-> "break", w |-> "\n\n", n |-> 2, end |-> FALSE]>>
         \o JoinParagraphs(Tail(units))

\* lines 142-153: the loop over the paragraphs from position i on
RECURSIVE ParagraphLoop(_, _, _, _, _)
ParagraphLoop(paragraphs, i, chunks, current_chunk, max_length) ==
    IF i > Len(paragraphs)
    THEN IF Len(current_chunk) > 0
         THEN Append(chunks, JoinParagraphs(current_chunk))
         ELSE chunks
    ELSE IF Len(Split(Join(current_chunk))) + Len(Split(paragraphs[i]))
               > max_length
            /\ Len(current_chunk) > 0
         THEN ParagraphLoop(paragraphs, i + 1,
                  Append(chunks, JoinParagraphs(current_chunk)),
                  <<paragraphs[i]>>, max_length)
         ELSE ParagraphLoop(paragraphs, i + 1, chunks,
                  Append(current_chunk, paragraphs[i]), max_length)

\* _chunk_by_paragraphs, lines 135-155
ChunkByParagraphs(text, max_length, overlap) ==
    ParagraphLoop(Paragraphs(text), 1, <<>>, <<>>, max_length)

Strategies == {"word", "sentence", "paragraph"}

\* the strategies a caller may name: the three above and one that
\* chunk_text does not know (the name of a search strategy)
RequestedStrategies == Strategies \cup {"semantic"}

\* chunk_text, lines 35-79: the list it returns
ChunkTextResult(text, max_length, overlap, strategy) ==
    LET cleaned_text == GuardedText(text)
        chunks == IF strategy = "sentence"
                  THEN ChunkBySentences(cleaned_text, max_length, overlap)
                  ELSE IF strategy = "paragraph"
                  THEN ChunkByParagraphs(cleaned_text, max_length, overlap)
                  ELSE ChunkByWords(cleaned_text, max_length, overlap)
    IN [i \in 1..Len(chunks) |->
           [content |-> chunks[i], chunk_id |-> i - 1,
            word_count |-> Len(Split(chunks[i])),
            char_count |-> CharCount(chunks[i]),
            strategy_used |-> strategy]]

\* one call chunk_text(text, max_length, overlap, strategy); no line of
\* chunk_text raises
ChunkText ==
    /\ chunked.set /\ ~chunked.done
    /\ chunked' = [chunked EXCEPT !.done = TRUE,
                      !.chunks = ChunkTextResult(chunked.text,
                                     chunked.max_length, chunked.overlap,
                                     chunked.strategy)]
    /\ UNCHANGED <<storeVars, docVars, globalIndex, procVars, cacheVars,
                   builds, searches, rebuilds, lastBuilt, deleted,
                   servedDeleted, changedAt, found, extVars>>

ChunkCalls ==
    {[set |-> TRUE, done |-> FALSE, text |-> text, max_length |-> max_length,
      overlap |-> overlap, strategy |-> strategy, chunks |-> <<>>,
      raised |-> FALSE] :
        text \in Texts, max_length \in 1..MaxLength,
        overlap \in 0..(MaxLength - 1), strategy \in RequestedStrategies}

InitChunk ==
    /\ InitStore /\ InitProcs /\ InitHistory /\ InitCacheDefault
    /\ found = NoFound /\ InitExt
    /\ chunked \in {c \in ChunkCalls : c.overlap < c.max_length}

SpecChunk == InitChunk /\ [][ChunkText]_vars

(***************************************************************************)
(* utils.py: the while loop of _chunk_by_words, one iteration per step,    *)
(* for every overlap >= 0.  len_words is len(words); a chunk is kept as    *)
(* its slice bounds (start, end).                                          *)
(***************************************************************************)
MaxIters == 4       \* iterations followed

\* lines 87-95: one pass through the loop body
WordLoopStep ==
    /\ wordLoop.set /\ wordLoop.pc = "loop"
    /\ wordLoop.iters < MaxIters
    /\ IF ~(wordLoop.start < wordLoop.len_words)
       THEN wordLoop' = [wordLoop EXCEPT !.pc = "return"]
       ELSE LET end == Min(wordLoop.start + wordLoop.max_length,
                           wordLoop.len_words)
                chunks == Append(wordLoop.chunks, <<wordLoop.start, end>>)
            IN wordLoop' =
                 IF end >= wordLoop.len_words
                 THEN [wordLoop EXCEPT !.chunks = chunks, !.pc = "return",
                                       !.iters = @ + 1]
                 ELSE [wordLoop EXCEPT
                          !.chunks = chunks, !.iters = @ + 1,
                          !.start = @ + wordLoop.max_length
                                      - wordLoop.overlap]
    /\ UNCHANGED <<storeVars, docVars, globalIndex, procVars, cacheVars,
                   builds, searches, rebuilds, lastBuilt, deleted,
                   servedDeleted, changedAt, chunked, found>>
    /\ ExtUnchangedExcept("wordLoop")

\* lines 83-85, for a text of len_words words
WordLoopCalls ==
    {[set |-> TRUE, pc |-> "loop", len_words |-> n, max_length |-> max_length,
      overlap |-> overlap, start |-> 0, chunks |-> <<>>, iters |-> 0] :
        n \in 0..(MaxTokens + 1), max_length \in 1..MaxLength,
        overlap \in 0..(MaxLength + 1)}

InitWordLoop ==
    /\ InitStore /\ InitProcs /\ InitHistory /\ InitCacheDefault
    /\ chunked = NoChunked /\ found = NoFound /\ InitExtExcept("wordLoop")
    /\ wordLoop \in WordLoopCalls

SpecWordLoop == InitWordLoop /\ [][WordLoopStep]_vars

(***************************************************************************)
(* search.py: KeywordSearcher, SemanticSearcher and HybridSearcher.        *)
(*                                                                         *)
(* A searcher is built over the chunks of one query session.  The BM25     *)
(* score and the cosine similarity of a chunk are inputs: keyword[i] and   *)
(* semantic[i] are the raw scores of the chunk at position i (positions    *)
(* count from 1 here and from 0 in the code; 0-based positions are written *)
(* where the code passes them on).  Raw scores are whole numbers;          *)
(* normalized scores are exact fractions of Unit; the weights are tenths.  *)
(***************************************************************************)
RECURSIVE Lcm(_, _)
Lcm(n, acc) ==
    IF n = 0 THEN acc
    ELSE Lcm(n - 1, CHOOSE m \in acc..(acc * n) :
                       /\ m % acc = 0 /\ m % n = 0
                       /\ \A l \in acc..(m - 1) : ~(l % acc = 0 /\ l % n = 0))

\* the normalized score 1.0: every spread max - min of raw scores divides it
Unit == Lcm(MaxScore, 1)

\* faiss fills the places it has no neighbour for with label -1 and the
\* lowest float (-3.4028235e+38)
NoLabel == 0 - 1
FloatLowest == 0 - (MaxScore + 1)

\* scores.sort(key=lambda x: x[1], reverse=True): stable, highest first
RECURSIVE InsertPair(_, _)
InsertPair(sorted, p) ==
    IF Len(sorted) = 0 THEN <<p>>
    ELSE IF Head(sorted)[2] >= p[2]
         THEN <<Head(sorted)>> \o InsertPair(Tail(sorted), p)
         ELSE <<p>> \o sorted

RECURSIVE SortPairs(_)
SortPairs(s) ==
    IF Len(s) = 0 THEN <<>>
    ELSE InsertPair(SortPairs(SubSeq(s, 1, Len(s) - 1)), s[Len(s)])

\* KeywordSearcher.search: (document position, BM25 score), best first
KeywordSearch(keyword, top_k) ==
    IF Len(keyword) = 0 THEN <<>>
    ELSE FirstK(SortPairs([i \in 1..Len(keyword) |-> <<i - 1, keyword[i]>>]),
                top_k)

\* index.search(query_embedding, top_k): top_k (label, score) places, the
\* nearest vectors first (equal scores in the order of the vectors), the
\* places beyond the number of vectors filled with (-1, lowest float)
FaissSearch(semantic, top_k) ==
    LET hits == FirstK(SortPairs([i \in 1..Len(semantic) |->
                                     <<i - 1, semantic[i]>>]), top_k)
    IN hits \o [i \in 1..(top_k - Len(hits)) |-> <<NoLabel, FloatLowest>>]

\* chunk_ids[idx] of a Python list: a negative idx counts from the end
PyItem(list, idx) ==
    IF idx < 0 THEN list[Len(list) + idx + 1] ELSE list[idx + 1]

\* SemanticSearcher.search: the places with idx < len(chunk_ids), as
\* (chunk id, score)
SemanticSearch(semantic, chunk_ids, top_k) ==
    IF Len(semantic) = 0 THEN <<>>
    ELSE LET places == FaissSearch(semantic, top_k)
             kept == SelectSeq(places, LAMBDA p : p[1] < Len(chunk_ids))
         IN [i \in 1..Len(kept) |-> <<PyItem(chunk_ids, kept[i][1]),
                                      kept[i][2]>>]

SeqMin(s) == CHOOSE x \in Range(s) : \A y \in Range(s) : x <= y
SeqMax(s) == CHOOSE x \in Range(s) : \A y \in Range(s) : x >= y

\* _normalize_scores.  With the lowest float among the scores the float
\* division (score - min) / (max - min) is 1.0 for every other score: the
\* score is absorbed in the sum with 3.4e+38.
NormalizeScoresMut(scores) ==
    IF Len(scores) = 0 THEN <<>>
    ELSE LET min_score == SeqMin(scores)
             max_score == SeqMax(scores)
         IN IF max_score = min_score THEN [i \in 1..Len(scores) |-> Unit]
            ELSE IF min_score = FloatLowest
            THEN [i \in 1..Len(scores) |->
                    IF scores[i] = FloatLowest THEN 0 ELSE Unit]
            ELSE [i \in 1..Len(scores) |->
                    ((max_score - scores[i]) * Unit)
                        \div (max_score - min_score)]

NormalizeScores(scores) ==
    IF Len(scores) = 0 THEN <<>>
    ELSE LET min_score == SeqMin(scores)
             max_score == SeqMax(scores)
         IN IF max_score = min_score THEN [i \in 1..Len(scores) |-> Unit]
            ELSE IF min_score = FloatLowest
            THEN [i \in 1..Len(scores) |->
                    IF scores[i] = FloatLowest THEN 0 ELSE Unit]
            ELSE [i \in 1..Len(scores) |->
                    ((scores[i] - min_score) * Unit)
                        \div (max_score - min_score)]

\* a score map filled in the order of the results: a later result of the
\* same chunk id replaces an earlier one
ScoreMap(ids, scores) ==
    [id \in Range(ids) |->
        scores[CHOOSE i \in 1..Len(ids) :
                  ids[i] = id /\ \A j \in (i + 1)..Len(ids) : ids[j] # id]]

MapGet(map, id, default) == IF id \in DOMAIN map THEN map[id] ELSE default

\* _hybrid_search, lines 186-214: combined_scores
CombinedScores(h) ==
    LET keyword_results == KeywordSearch(h.keyword, h.top_k * 2)
        semantic_results == SemanticSearch(h.semantic, h.chunk_ids,
                                           h.top_k * 2)
        keyword_scores ==
            NormalizeScores([i \in 1..Len(keyword_results) |->
                                keyword_results[i][2]])
        semantic_scores ==
            NormalizeScores([i \in 1..Len(semantic_results) |->
                                semantic_results[i][2]])
        keyword_score_map ==
            ScoreMap([i \in 1..Len(keyword_results) |->
                         PyItem(h.chunk_ids, keyword_results[i][1])],
                     keyword_scores)
        semantic_score_map ==
            ScoreMap([i \in 1..Len(semantic_results) |->
                         semantic_results[i][1]], semantic_scores)
    IN [chunk_id \in DOMAIN keyword_score_map \cup DOMAIN semantic_score_map
          |-> h.keyword_weight * MapGet(keyword_score_map, chunk_id, 0)
              + h.semantic_weight * MapGet(semantic_score_map, chunk_id, 0)]

TaggedMut(results, tag) ==
    [i \in 1..Len(results) |-> <<results[i][1], 0, tag>>]

Tagged(results, tag) ==
    [i \in 1..Len(results) |-> <<results[i][1], results[i][2], tag>>]

\* _hybrid_search, lines 216-219: sorted(combined_scores.items(), ...)[:top_k]
\* (the items of the dict in the order of the ids of the set)
HybridSearch(h) ==
    LET combined_scores == CombinedScores(h)
        items == SeqOfSet(DOMAIN combined_scores)
        sorted_results ==
            SortPairs([i \in 1..Len(items) |->
                          <<items[i], combined_scores[items[i]]>>])
    IN Tagged(FirstK(sorted_results, h.top_k), "hybrid")

\* HybridSearcher.search
HybridSearcherSearch(h) ==
    IF h.strategy = "keyword"
    THEN LET keyword_results == KeywordSearch(h.keyword, h.top_k)
         IN Tagged([i \in 1..Len(keyword_results) |->
                       <<PyItem(h.chunk_ids, keyword_results[i][1]),
                         keyword_results[i][2]>>], "keyword")
    ELSE IF h.strategy = "semantic"
    THEN Tagged(SemanticSearch(h.semantic, h.chunk_ids, h.top_k), "semantic")
    ELSE HybridSearch(h)

Search ==
    /\ found.set /\ ~found.done
    /\ found' = [found EXCEPT
                   !.done = TRUE,
                   !.result = HybridSearcherSearch(found),
                   !.combined = IF found.strategy \in {"keyword", "semantic"}
                                THEN <<>> ELSE CombinedScores(found)]
    /\ UNCHANGED <<storeVars, docVars, globalIndex, procVars, cacheVars,
                   builds, searches, rebuilds, lastBuilt, deleted,
                   servedDeleted, changedAt, chunked, extVars>>

\* DocumentChunk.id is the primary key of the chunk's row: the ids of the
\* chunks of a session differ
IdLists(n) == {[i \in 1..n |-> i], [i \in 1..n |-> n + 1 - i]}

SearchStrategies == {"hybrid", "keyword", "semantic"}

\* HybridSearcher(keyword_weight=0.3, semantic_weight=0.7), both
\* configurable
Weights == {<<3, 7>>, <<5, 5>>}

\* a searcher built over n chunks (n = 0: build_index was not called) and
\* one call of search
HybridCalls(n) ==
    {[set |-> TRUE, done |-> FALSE, result |-> <<>>, combined |-> <<>>,
      chunk_ids |-> ids, keyword |-> kw, semantic |-> sem,
      top_k |-> k, strategy |-> st,
      keyword_weight |-> w[1], semantic_weight |-> w[2]] :
        ids \in IdLists(n),
        kw \in [1..n -> 0..MaxScore], sem \in [1..n -> 0..MaxScore],
        k \in 1..MaxTopK, st \in SearchStrategies, w \in Weights}

InitHybrid ==
    /\ InitStore /\ InitProcs /\ InitHistory /\ InitCacheDefault
    /\ chunked = NoChunked /\ InitExt
    /\ \E n \in 0..MaxIndexed : found \in HybridCalls(n)

SpecHybrid == InitHybrid /\ [][Search]_vars

(***************************************************************************)
(* search.py: ReRanker.rerank_results(results, chunks, query).             *)
(* results are (chunk id, score, method) triples, document_id[id] is the   *)
(* document of the chunk with that id (absent: the chunk is not in         *)
(* chunks).  Scores are whole numbers on the way in and ten-thousandths    *)
(* on the way out.                                                         *)
(***************************************************************************)
DiversityPenalty == 30      \* 0.3, in hundredths
DiversityWeight == 20       \* self.diversity_weight = 0.2, in hundredths

\* score * (1 - diversity_penalty * self.diversity_weight)
AdjustedScore(score, diversity_penalty) ==
    score * (100 * 100 - diversity_penalty * DiversityWeight)

\* lines 306-321: the loop over the results from position i on
RECURSIVE RerankLoop(_, _, _, _, _)
RerankLoop(results, document_id, i, reranked_results, used_documents) ==
    IF i > Len(results) THEN reranked_results
    ELSE LET chunk_id == results[i][1]
         IN IF chunk_id \notin DOMAIN document_id
            THEN RerankLoop(results, document_id, i + 1, reranked_results,
                            used_documents)
            ELSE LET diversity_penalty ==
                         IF document_id[chunk_id] \in used_documents
                         THEN DiversityPenalty ELSE 0
                 IN RerankLoop(results, document_id, i + 1,
                        Append(reranked_results,
                               <<chunk_id,
                                 AdjustedScore(results[i][2],
                                               diversity_penalty),
                                 results[i][3]>>),
                        used_documents \cup {document_id[chunk_id]})

\* lines 297-324
RerankResults(results, document_id) ==
    IF Len(results) = 0 THEN results
    ELSE SortPairs(RerankLoop(results, document_id, 1, <<>>, {}))

Rerank ==
    /\ reranked.set /\ ~reranked.done
    /\ reranked' = [reranked EXCEPT
                      !.done = TRUE,
                      !.output = RerankResults(reranked.results,
                                               reranked.document_id)]
    /\ UNCHANGED <<storeVars, docVars, globalIndex, procVars, cacheVars,
                   builds, searches, rebuilds, lastBuilt, deleted,
                   servedDeleted, changedAt, chunked, found>>
    /\ ExtUnchangedExcept("reranked")

\* the results of one search over n chunks of two documents: chunk ids
\* 1..n in ranked order, raw scores (an inner product may be negative)
RerankCalls(n) ==
    {[set |-> TRUE, done |-> FALSE, output |-> <<>>,
      results |-> [i \in 1..n |-> <<i, score[i], "semantic">>],
      document_id |-> docs] :
        score \in [1..n -> (0 - 1)..MaxScore], docs \in [1..n -> 1..2]}

InitRerank ==
    /\ InitStore /\ InitProcs /\ InitHistory /\ InitCacheDefault
    /\ chunked = NoChunked /\ found = NoFound /\ InitExtExcept("reranked")
    /\ \E n \in 0..(MaxIndexed + 1) : reranked \in RerankCalls(n)

SpecRerank == InitRerank /\ [][Rerank]_vars

(***************************************************************************)
(* advanced_features_backup/cache.py: class InMemoryCache.  self.cache is  *)
(* a dict, kept here as the sequence of its items in insertion order; an   *)
(* item is [key, value, timestamp].  now is the reading of time.time().    *)
(***************************************************************************)
MaxSize == 2        \* max_size
Ttl == 1            \* ttl
MaxNow == 2         \* the clock stops here
MemKeys == 1..(MaxSize + 1)

KeysOf(items) == {items[i].key : i \in 1..Len(items)}

\* del self.cache[key]
DelItem(items, key) == SelectSeq(items, LAMBDA it : it.key # key)

\* self.cache[key] = (value, timestamp): a present key keeps its place
PutItem(items, key, value, timestamp) ==
    IF key \in KeysOf(items)
    THEN [i \in 1..Len(items) |->
              IF items[i].key = key
              THEN [key |-> key, value |-> value, timestamp |-> timestamp]
              ELSE items[i]]
    ELSE Append(items,
                [key |-> key, value |-> value, timestamp |-> timestamp])

\* min(self.cache.keys(), key=lambda k: self.cache[k][1]): the first key,
\* in dict order, with the lowest timestamp
OldestKey(items) ==
    LET i == CHOOSE i \in 1..Len(items) :
                 /\ \A j \in 1..Len(items) :
                        items[i].timestamp <= items[j].timestamp
                 /\ \A j \in 1..(i - 1) :
                        items[j].timestamp > items[i].timestamp
    IN items[i].key

MemCalled(op, key, items) ==
    [memCache EXCEPT !.cache = items,
                     !.last = [op |-> op, key |-> key,
                               before |-> memCache.cache]]

MemUnchanged ==
    /\ UNCHANGED <<storeVars, docVars, globalIndex, procVars, cacheVars,
                   builds, searches, rebuilds, lastBuilt, deleted,
                   servedDeleted, changedAt, chunked, found>>
    /\ ExtUnchangedExcept("memCache")

\* InMemoryCache.get, lines 148-156
MemGet(key) ==
    /\ memCache.set
    /\ LET hit == {i \in 1..Len(memCache.cache) :
                       memCache.cache[i].key = key}
       IN memCache' =
            IF hit = {} THEN MemCalled("get", key, memCache.cache)
            ELSE LET i == CHOOSE i \in hit : TRUE
                 IN IF memCache.now - memCache.cache[i].timestamp < Ttl
                    THEN MemCalled("get", key, memCache.cache)
                    ELSE MemCalled("get", key, DelItem(memCache.cache, key))
    /\ MemUnchanged

\* InMemoryCache.set, lines 158-165
MemSet(key, value) ==
    /\ memCache.set
    /\ LET kept == IF Len(memCache.cache) >= MaxSize
                   THEN DelItem(memCache.cache, OldestKey(memCache.cache))
                   ELSE memCache.cache
       IN memCache' = MemCalled("set", key,
                                PutItem(kept, key, value, memCache.now))
    /\ MemUnchanged

\* InMemoryCache.delete, lines 167-170
MemDelete(key) ==
    /\ memCache.set
    /\ memCache' = MemCalled("delete", key,
                       IF key \in KeysOf(memCache.cache)
                       THEN DelItem(memCache.cache, key)
                       ELSE memCache.cache)
    /\ MemUnchanged

\* InMemoryCache.clear, lines 172-174
MemClear ==
    /\ memCache.set
    /\ memCache' = MemCalled("clear", 0, <<>>)
    /\ MemUnchanged

\* time passes between two calls
MemTick ==
    /\ memCache.set
    /\ memCache.now < MaxNow
    /\ memCache' = [memCache EXCEPT !.now = @ + 1]
    /\ MemUnchanged

\* InMemoryCache.__init__, lines 143-146
InitMem ==
    /\ InitStore /\ InitProcs /\ InitHistory /\ InitCacheDefault
    /\ chunked = NoChunked /\ found = NoFound /\ InitExtExcept("memCache")
    /\ memCache = [set |-> TRUE, cache |-> <<>>, now |-> 0,
                   last |-> [op |-> "init", key |-> 0, before |-> <<>>]]

NextMem ==
    \/ \E key \in MemKeys : MemGet(key)
    \/ \E key \in MemKeys, value \in {"x", "y"} : MemSet(key, value)
    \/ \E key \in MemKeys : MemDelete(key)
    \/ MemClear
    \/ MemTick

SpecMem == InitMem /\ [][NextMem]_vars

(***************************************************************************)
(* async_processing.py: class TaskManager.  tasks maps a task id to the    *)
(* status of its Task ("none": no such task yet), running_tasks is the set *)
(* of keys of self.running_tasks.  The event loop runs one handler at a    *)
(* time, so a handler is one step.                                         *)
(***************************************************************************)
MaxConcurrentTasks == 2     \* self.max_concurrent_tasks
MaxTasks == 4               \* tasks created
TaskIds == 1..MaxTasks
TerminalStatuses == {"completed", "failed", "cancelled"}

\* _start_task, lines 73-81
StartTask(tm, task_id) ==
    [tm EXCEPT !.tasks[task_id] = "running",
               !.running_tasks = @ \cup {task_id}]

\* _start_next_pending_task, lines 128-138: the loop finds the first
\* pending task and breaks without starting it
StartNextPendingTask(tm) == tm

TasksUnchanged ==
    /\ UNCHANGED <<storeVars, docVars, globalIndex, procVars, cacheVars,
                   builds, searches, rebuilds, lastBuilt, deleted,
                   servedDeleted, changedAt, chunked, found>>
    /\ ExtUnchangedExcept("taskManager")

\* create_task, lines 53-71; the new id is fresh (uuid4)
CreateTask(task_id) ==
    /\ taskManager.set
    /\ taskManager.tasks[task_id] = "none"
    /\ \A t \in TaskIds : t < task_id => taskManager.tasks[t] # "none"
    /\ LET tm == [taskManager EXCEPT !.tasks[task_id] = "pending"]
       IN taskManager' =
            IF Cardinality(tm.running_tasks) < MaxConcurrentTasks
            THEN StartTask(tm, task_id) ELSE tm
    /\ TasksUnchanged

\* _execute_task, lines 83-121: func returns, raises, or the asyncio task
\* is cancelled; then the finally clause
ExecuteTask(task_id, status) ==
    /\ taskManager.set
    /\ task_id \in taskManager.running_tasks
    /\ taskManager' = StartNextPendingTask(
           [taskManager EXCEPT !.tasks[task_id] = status,
                               !.running_tasks = @ \ {task_id}])
    /\ TasksUnchanged

\* cancel_task, lines 153-157, of a task that is not running
CancelTask(task_id) ==
    /\ taskManager.set
    /\ task_id \notin taskManager.running_tasks
    /\ taskManager.tasks[task_id] = "pending"
    /\ taskManager' = [taskManager EXCEPT !.tasks[task_id] = "cancelled"]
    /\ TasksUnchanged

\* __init__, lines 47-51
InitTasks ==
    /\ InitStore /\ InitProcs /\ InitHistory /\ InitCacheDefault
    /\ chunked = NoChunked /\ found = NoFound
    /\ InitExtExcept("taskManager")
    /\ taskManager = [set |-> TRUE, tasks |-> [t \in TaskIds |-> "none"],
                      running_tasks |-> {}]

NextTasks ==
    \/ \E task_id \in TaskIds : CreateTask(task_id)
    \/ \E task_id \in TaskIds, status \in TerminalStatuses :
          ExecuteTask(task_id, status)
    \/ \E task_id \in TaskIds : CancelTask(task_id)

SpecTasks == InitTasks /\ [][NextTasks]_vars

(***************************************************************************)
(* rag.get_answer_with_sources(query, top_k), lines 112-241: retrieval     *)
(* over the global index, then the generative-model call.  The whole body  *)
(* is inside one try; llm is what the call of the model does.              *)
(***************************************************************************)
\* lines 142-181: one source reference per place of the lookup whose
\* position is below len(metadata); position -1 reads metadata[-1]
SourceReferences(rows, recs, q, top_k) ==
    LET pos == TopRows(rows, q, top_k, {})
        ref(n) ==
            LET chunk_data == PyItem(recs, pos[n])
            IN [document_name |-> chunk_data.source_file,
                document_id |-> <<"str", chunk_data.document_id>>,
                chunk_index |-> chunk_data.chunk_index,
                similarity_score |->
                    IF pos[n] < 0 THEN FloatLowest
                    ELSE Similarity(q, rows[pos[n] + 1])]
        F[n \in 0..Len(pos)] ==
            IF n = 0 THEN <<>>
            ELSE IF pos[n] < Len(recs) THEN Append(F[n - 1], ref(n))
                 ELSE F[n - 1]
    IN F[Len(pos)]

AnswerWithSources(query, top_k, llm) ==
    LET source_references ==
            SourceReferences(globalIndex.rows, globalIndex.recs, query, top_k)
        call == [set |-> TRUE, query |-> query, top_k |-> top_k, llm |-> llm]
    IN /\ answered' =
            IF ~globalIndex.exists
            THEN call @@ [answer |-> "no_index", sources |-> <<>>,
                          error |-> "Index files not found",
                          retrieved |-> <<>>]
            ELSE IF llm = "no_key"
            THEN call @@ [answer |-> "no_key", sources |-> source_references,
                          error |-> "API key missing",
                          retrieved |-> source_references]
            ELSE IF llm = "api_error"
            THEN call @@ [answer |-> "error", sources |-> <<>>,
                          error |-> "str(e)",
                          retrieved |-> source_references]
            ELSE call @@ [answer |-> "answer", sources |-> source_references,
                          error |-> "",
                          retrieved |-> source_references]
       /\ UNCHANGED <<storeVars, docVars, globalIndex, procVars, cacheVars,
                      builds, searches, rebuilds, lastBuilt, deleted,
                      servedDeleted, changedAt, chunked, found>>
       /\ ExtUnchangedExcept("answered")

(***************************************************************************)
(* The index store under concurrent requests.                              *)
(***************************************************************************)
NextStore(P) ==
    \/ \E p \in P, key \in Keys, chunks \in ChunkLists, encodeOk \in BOOLEAN :
            /\ builds < MaxBuilds
            /\ BuildDirect(p, key, 0, chunks, encodeOk)
    \/ \E p \in P : BuildWriteIndex(p)
    \/ \E p \in P : BuildWriteMeta(p)
    \/ \E p \in P : BuildWriteLegacy(p)
    \/ \E p \in P, q \in Queries, paths \in PathLists, k \in 1..MaxChunks :
            /\ searches < MaxSearches
            /\ SearchStart(p, q, paths, k)
    \/ \E p \in P : SearchReadIndex(p)
    \/ \E p \in P : SearchReadMeta(p)

Next == NextStore(Procs)

Spec == Init /\ [][Next]_vars

(***************************************************************************)
(* The service with one request at a time.                                 *)
(***************************************************************************)
NextService ==
    \/ NextStore({"p1"})
    \/ \E key \in Keys, chunks \in ChunkLists, extractOk \in BOOLEAN,
          encodeOk \in BOOLEAN :
            /\ builds < MaxBuilds
            /\ nextId <= MaxDocs
            /\ UploadBasic("p1", key, chunks, extractOk, encodeOk)
    \/ \E key \in Keys, encodeOk \in BOOLEAN :
            /\ builds < MaxBuilds
            /\ Reprocess("p1", key, encodeOk)
    \/ \E docId \in DocIds : DeleteBasic("p1", docId)
    \/ \E docId \in DocIds : DeleteEnhanced("p1", docId, "ok")
    \/ \E order \in KeyOrders :
            /\ rebuilds < MaxRebuilds
            /\ GlobalRebuild("p1", order)

SpecService == Init /\ [][NextService]_vars

(***************************************************************************)
(* Index builds one after another: uploads, reprocessing, direct builds.   *)
(***************************************************************************)
NextBuilds ==
    \/ \E key \in Keys, chunks \in ChunkLists, encodeOk \in BOOLEAN :
            /\ builds < MaxBuilds
            /\ BuildDirect("p1", key, 0, chunks, encodeOk)
    \/ BuildWriteIndex("p1")
    \/ BuildWriteMeta("p1")
    \/ BuildWriteLegacy("p1")
    \/ \E key \in Keys, chunks \in ChunkLists, extractOk \in BOOLEAN,
          encodeOk \in BOOLEAN :
            /\ builds < MaxBuilds
            /\ nextId <= MaxDocs
            /\ UploadBasic("p1", key, chunks, extractOk, encodeOk)
    \/ \E key \in Keys, encodeOk \in BOOLEAN :
            /\ builds < MaxBuilds
            /\ Reprocess("p1", key, encodeOk)
    \/ \E docId \in DocIds : DeleteBasic("p1", docId)

SpecBuilds == Init /\ [][NextBuilds]_vars

(***************************************************************************)
(* The query cache on its own: put, get, invalidate, clean-up, time.       *)
(***************************************************************************)
CacheRequests ==
    {[query |-> <<"a">>, ids |-> <<1, 2>>, k |-> 3],
     [query |-> <<"A", " ">>, ids |-> <<1, 2>>, k |-> 3],
     [query |-> <<"a">>, ids |-> <<2, 1>>, k |-> 3],
     [query |-> <<"a">>, ids |-> <<1, 2>>, k |-> 5],
     [query |-> <<"a">>, ids |-> <<2>>, k |-> 3]}
DocLists == {<<2>>, <<1, 2>>}
Sessions == {"ok", "none", "fail"}

InitCache ==
    /\ InitStore /\ InitProcs /\ InitHistory /\ InitAux
    /\ cache = {}
    /\ now = 0
    /\ cache_ttl \in {0, 1}
    /\ enabled \in BOOLEAN
    /\ queryLog = 0
    /\ lastOp = NoOp

NextCache ==
    \/ \E r \in CacheRequests, db \in Sessions :
            /\ gets < MaxGets
            /\ CacheGet(r.query, r.ids, r.k, db)
    \/ \E r \in CacheRequests, db \in Sessions :
            /\ puts < MaxPuts
            /\ CachePut(r.query, "x", r.ids, r.k, db)
    \/ \E ids \in DocLists, db \in Sessions : CacheInvalidate(ids, db)
    \/ \E db \in Sessions : ClearExpired(db)
    \/ now < MaxTime /\ Tick

SpecCache == InitCache /\ [][NextCache]_vars

(***************************************************************************)
(* get_cached_response in two steps, for requests served by different      *)
(* sessions (worker processes).  Lines 40-43 load the row into the         *)
(* session; line 47 adds one to the loaded hit_count in Python and line 48 *)
(* commits: UPDATE query_cache SET hit_count = <loaded + 1> WHERE id = ... *)
(* A row deleted in between makes the commit raise, and the get returns    *)
(* None (lines 53-55).                                                     *)
(***************************************************************************)
GetLoad(p, query, document_ids, k) ==
    LET hits == CacheHits(cache, query, document_ids, k, "ok")
    IN /\ ~getting.sess[p].loaded
       /\ getting' =
            [getting EXCEPT
               !.loads = @ + 1,
               !.sess[p] = IF hits = {} THEN NoSession
                           ELSE [loaded |-> TRUE, seq |-> TheHit(hits).seq,
                                 hit_count |-> TheHit(hits).hit_count]]
       /\ UNCHANGED <<storeVars, docVars, globalIndex, procVars, cacheVars,
                      builds, searches, rebuilds, lastBuilt, deleted,
                      servedDeleted, changedAt, chunked, found>>
       /\ ExtUnchangedExcept("getting")

GetCommit(p) ==
    LET mine == getting.sess[p]
        rows == {e \in cache : e.seq = mine.seq}
    IN /\ mine.loaded
       /\ cache' = (cache \ rows) \cup
                   {[e EXCEPT !.hit_count = mine.hit_count + 1] : e \in rows}
       /\ getting' =
            [getting EXCEPT
               !.sess[p] = NoSession,
               !.served[mine.seq] = IF rows = {} THEN @ ELSE @ + 1]
       /\ UNCHANGED <<storeVars, docVars, globalIndex, procVars, now,
                      cache_ttl, enabled, queryLog, lastOp, puts, gets,
                      queries, lastPut, builds, searches, rebuilds, lastBuilt,
                      deleted, servedDeleted, changedAt, chunked, found>>
       /\ ExtUnchangedExcept("getting")

HitRequests == {r \in CacheRequests : r.ids = <<1, 2>> /\ r.query = <<"a">>}

NextHits ==
    \/ \E r \in HitRequests :
            /\ puts < MaxPuts
            /\ CachePut(r.query, "x", r.ids, r.k, "ok")
    \/ \E p \in Procs, r \in HitRequests :
            /\ getting.loads < MaxLoads
            /\ GetLoad(p, r.query, r.ids, r.k)
    \/ \E p \in Procs : GetCommit(p)

SpecHits == Init /\ [][NextHits]_vars

(***************************************************************************)
(* The query path with its cache, next to upload, deletion and the         *)
(* reprocessing script.                                                    *)
(***************************************************************************)
\* a query of MaxQueryChars + 1 characters
LongQuery == [i \in 1..(MaxQueryChars + 1) |-> "a"]

QueryInputs ==
    {[query |-> <<"a">>, k |-> 3], [query |-> <<"A", " ">>, k |-> 3],
     [query |-> <<"a">>, k |-> 5],
     [query |-> <<>>, k |-> 3], [query |-> <<" ">>, k |-> 3],
     [query |-> LongQuery, k |-> 3],
     [query |-> <<"<", "S", "c", "r", "i", "p", "t", ">">>, k |-> 3]}
LlmOutcomes == {"answer", "no_key", "api_error"}
QueryChunkLists == {c \in ChunkLists : Len(c) = MaxChunks /\ c[1] = "c1"}

NextQuery ==
    \/ \E key \in Keys, chunks \in QueryChunkLists, extractOk \in BOOLEAN,
          encodeOk \in BOOLEAN :
            /\ builds < MaxBuilds
            /\ nextId <= MaxDocs
            /\ UploadBasic("p1", key, chunks, extractOk, encodeOk)
    \/ \E key \in Keys, encodeOk \in BOOLEAN :
            /\ builds < MaxBuilds
            /\ Reprocess("p1", key, encodeOk)
    \/ BuildWriteIndex("p1")
    \/ BuildWriteMeta("p1")
    \/ BuildWriteLegacy("p1")
    \/ \E docId \in DocIds : DeleteEnhanced("p1", docId, "ok")
    \/ \E r \in QueryInputs, use_cache \in BOOLEAN, llm \in LlmOutcomes,
          db \in {"ok", "fail"} :
            /\ queries < MaxQueries
            /\ QueryRequest(r.query, r.k, use_cache, llm, db)
    \/ \E r \in QueryInputs :
            /\ queries < MaxQueries
            /\ QueryBasic(r.query, r.k)

SpecQuery == Init /\ [][NextQuery]_vars

(***************************************************************************)
(* The global index next to uploads and deletions.                         *)
(***************************************************************************)
GlobalChunkLists == {c \in ChunkLists : Len(c) > 0 /\ c[1] = "c1"}

NextGlobal ==
    \/ \E key \in Keys, chunks \in GlobalChunkLists, extractOk \in BOOLEAN,
          encodeOk \in BOOLEAN :
            /\ builds < MaxBuilds
            /\ nextId <= MaxDocs
            /\ UploadBasic("p1", key, chunks, extractOk, encodeOk)
    \/ BuildWriteIndex("p1")
    \/ BuildWriteMeta("p1")
    \/ BuildWriteLegacy("p1")
    \/ \E docId \in DocIds : DeleteBasic("p1", docId)
    \/ \E order \in KeyOrders :
            /\ rebuilds < MaxRebuilds
            /\ GlobalRebuild("p1", order)

SpecGlobal == Init /\ [][NextGlobal]_vars

\* answering over the global index, next to uploads, deletions and rebuilds
NextAnswer ==
    \/ NextGlobal
    \/ \E top_k \in 1..MaxTopK, llm \in LlmOutcomes :
            AnswerWithSources("q1", top_k, llm)

SpecAnswer == Init /\ [][NextAnswer]_vars

(***************************************************************************)
(* Properties of the index store.                                          *)
(***************************************************************************)
AllIdle == \A p \in Procs : pc[p] = "idle"

Positional(key) ==
    /\ metaFile[key].exists
    /\ Len(metaFile[key].recs) = Len(indexFile[key].rows)
    /\ \A i \in 1..Len(metaFile[key].recs) :
          /\ metaFile[key].recs[i].chunk_id = i - 1
          /\ metaFile[key].recs[i].chunk_index = i - 1
          /\ indexFile[key].rows[i] = Embed(metaFile[key].recs[i].content)

\* C1: when every build started so far has completed, every persisted
\* per-document index has as many metadata records as vector rows, and the
\* record at (0-based) position i has chunk_id = chunk_index = i and the
\* content whose embedding is vector row i.
C1_PositionalCorrespondence ==
    AllIdle => \A key \in Keys : indexFile[key].exists => Positional(key)

\* an uploaded document was reprocessed by the script: its two-chunk index
\* is the one of the second build
C1_Witness ==
    /\ AllIdle
    /\ \E key \in Keys :
          /\ indexFile[key].exists
          /\ indexFile[key].build = 2
          /\ Len(indexFile[key].rows) = 2
          /\ metaFile[key].recs[2].document_id = HashId(key)
          /\ DocsOfKey(key) # {}

PairsOf(p) == Range(loc[p].pairs) \cup Range(ret[p].pairs)

\* C2: the {vector index, metadata list} pair a search reads, and the pair
\* left in storage when all builds have finished, comes from one single
\* build.
C2_PairFromOneBuild ==
    /\ \A p \in Procs : \A pr \in PairsOf(p) : pr.index = pr.meta
    /\ AllIdle =>
          \A key \in Keys :
              (indexFile[key].exists /\ metaFile[key].exists)
                  => indexFile[key].build = metaFile[key].build

Contents(recs) == [i \in 1..Len(recs) |-> recs[i].content]

\* C3: after a build for a key has returned (with any return value), the
\* index persisted under the key holds exactly the chunks of that build.
C3_FullReplace ==
    AllIdle =>
        \A key \in Keys :
            lastBuilt[key].set =>
                IF Len(lastBuilt[key].chunks) = 0
                THEN /\ Len(indexFile[key].rows) = 0
                     /\ Len(metaFile[key].recs) = 0
                ELSE /\ indexFile[key].rows = IndexRows(lastBuilt[key].chunks)
                     /\ Contents(metaFile[key].recs) = lastBuilt[key].chunks

\* C4: after a document is deleted, neither its vector index nor its
\* metadata sidecar remains, and no later search or global rebuild uses
\* them.
C4_DeletedLeavesNoArtifact ==
    /\ \A key \in deleted :
          ~indexFile[key].exists /\ ~metaFile[key].exists
    /\ ~servedDeleted

(***************************************************************************)
(* Properties of the query cache.                                          *)
(***************************************************************************)
Touches(e, document_ids) == Range(e.documents_hash) \cap Range(document_ids) # {}

\* C5: an effective invalidate(document_ids) removes every entry whose
\* document set contains any of the ids and leaves every other entry as it
\* was.
C5_InvalidateScope ==
    [][(lastOp'.op = "invalidate" /\ enabled /\ lastOp'.db = "ok")
         => cache' = {e \in cache : ~Touches(e, lastOp'.docs)}]_vars

SameIds(a, b) ==
    /\ Len(a) = Len(b)
    /\ \A x \in Range(a) \cup Range(b) :
          Cardinality({i \in 1..Len(a) : a[i] = x}) =
          Cardinality({i \in 1..Len(b) : b[i] = x})

SameKey(g, p) ==
    /\ Strip(Lower(g.query)) = Strip(Lower(p.query))
    /\ SameIds(g.docs, p.docs)
    /\ g.k = p.k

\* C7: with a working cache, after a put of answer a for (q, D, k) that is
\* neither expired nor overwritten, a get for (q', D', k') returns that
\* entry and its answer a exactly when q' equals q up to case and outer
\* whitespace, D' is a permutation of D and k' = k.
C7_RoundTrip ==
    (/\ lastOp.op = "get" /\ lastOp.db = "ok" /\ enabled
     /\ lastPut.set /\ cache_ttl > 0 /\ lastOp.at < lastPut.expires_at)
    => /\ (lastOp.hit /\ lastOp.hitSeq = lastPut.seq) <=> SameKey(lastOp, lastPut)
       /\ SameKey(lastOp, lastPut) => lastOp.result = lastPut.response

C7_Witness ==
    /\ lastOp.op = "get" /\ lastOp.hit /\ lastPut.set
    /\ lastOp.hitSeq = lastPut.seq
    /\ lastOp.docs # lastPut.docs
    /\ lastOp.result = "x"

\* C8: a get never returns an entry whose expiry time is at or before the
\* time of the get; with a time-to-live of zero nothing is ever a hit.
C8_NoExpiredHit ==
    lastOp.hit => (lastOp.hitExpires > lastOp.at /\ cache_ttl # 0)

C8_Witness ==
    /\ lastOp.op = "get" /\ lastOp.db = "ok" /\ enabled /\ ~lastOp.hit
    /\ \E e \in cache :
          /\ e.query_hash = QueryHash(lastOp.query, lastOp.docs, lastOp.k)
          /\ e.expires_at <= lastOp.at

Degraded(o) == ~enabled \/ o.db # "ok"

C6_NoStaleAnswer == ~lastOp.stale

Placeholders == {"no_content", "no_key", "api_error"}

\* C9: a request whose retrieval finds nothing, or whose generative-model
\* call fails or is not configured, writes no cache entry, and no request
\* is answered from the cache with such a text.
C9_OnlyAnswersCached ==
    /\ (lastOp.op = "query" /\ lastOp.outcome \in Placeholders) => ~lastOp.wrote
    /\ (lastOp.op = "query" /\ lastOp.hit) => lastOp.result \notin Placeholders
    /\ \A e \in cache : e.response_text \notin Placeholders

(***************************************************************************)
(* Properties of retrieval.                                                *)
(***************************************************************************)
\* C11: a query over documents of which one has a vector index but no
\* metadata file raises no error: the document is skipped and the request
\* is answered from the usable documents (or with the "no relevant
\* content" result).
C11_MissingArtifactSkipped ==
    ~(lastOp.op = "query" /\ lastOp.outcome = "raised"
      /\ lastOp.result = "FileNotFoundError")

NoDocumentIndex == \A key \in Keys : ~indexFile[key].exists

\* C12: a global rebuild that runs while no per-document index exists
\* returns 0 and leaves the persisted global index and its metadata table
\* exactly as they were.
C12_RebuildNothingToMerge ==
    [][(rebuilds' = rebuilds + 1 /\ NoDocumentIndex)
         => /\ globalIndex' = globalIndex
            /\ ret'["p1"].op = "rebuild" /\ ret'["p1"].value = 0]_vars

C12_Witness ==
    /\ globalIndex.exists /\ Len(globalIndex.rows) > 0
    /\ NoDocumentIndex
    /\ rebuilds = 2
    /\ ret["p1"].op = "rebuild" /\ ret["p1"].value = 0

(***************************************************************************)
(* Properties of the chunker.                                              *)
(***************************************************************************)
\* the words of a text: its tokens that are not special characters only
\* and not blank lines
InputWords(text) == SelectSeq(text, LAMBDA t : t.kind = "word")

CeilDiv(a, b) == (a + b - 1) \div b

WordCall == chunked.set /\ chunked.done /\ chunked.strategy = "word"

\* C13: the word strategy, for 0 <= overlap < max_length and a text of N
\* words with N > overlap, emits ceil((N - overlap) / (max_length - overlap))
\* chunks.
C13_WordChunkCount ==
    (WordCall /\ Len(InputWords(chunked.text)) > chunked.overlap)
    => Len(chunked.chunks) =
          CeilDiv(Len(InputWords(chunked.text)) - chunked.overlap,
                  chunked.max_length - chunked.overlap)

C13_Witness ==
    /\ WordCall /\ chunked.overlap = 1 /\ chunked.max_length = 2
    /\ Len(InputWords(chunked.text)) = 4
    /\ Len(chunked.chunks) = 3

\* C14: under the word strategy chunk i + 1 starts max_length - overlap
\* words after chunk i starts, so its first overlap words are the last
\* overlap words of chunk i.
C14_WordOverlap ==
    (WordCall /\ Len(InputWords(chunked.text)) > 0) =>
      \A i \in 1..(Len(chunked.chunks) - 1) :
        LET a == chunked.chunks[i].content
            b == chunked.chunks[i + 1].content
            step == chunked.max_length - chunked.overlap
            words == InputWords(chunked.text)
        IN /\ Len(a) = chunked.max_length
           /\ Len(b) >= chunked.overlap
           /\ SubSeq(b, 1, chunked.overlap) =
                 SubSeq(a, Len(a) - chunked.overlap + 1, Len(a))
           /\ a = SubSeq(words, (i - 1) * step + 1,
                         (i - 1) * step + chunked.max_length)
           /\ b = SubSeq(words, i * step + 1,
                         Min(i * step + chunked.max_length, Len(words)))

C14_Witness ==
    /\ WordCall /\ chunked.overlap = 2 /\ chunked.max_length = 3
    /\ Len(chunked.chunks) = 2
    /\ chunked.chunks[1].content[2] # chunked.chunks[1].content[3]
    /\ SubSeq(chunked.chunks[2].content, 1, 2) =
          SubSeq(chunked.chunks[1].content, 2, 3)

IsSubSeq(u, c) ==
    \E i \in 0..(Len(c) - Len(u)) : SubSeq(c, i + 1, i + Len(u)) = u

\* the sentences of a text: what stands between two sentence terminators
InputSentences(text) ==
    LET pieces == Pieces(CleanText(text), <<>>)
        stripped == [i \in 1..Len(pieces) |-> StripTokens(pieces[i])]
    IN SelectSeq(stripped, LAMBDA p : Len(p) > 0)

\* the paragraphs of a text: what stands between two blank lines
InputParagraphs(text) ==
    LET parts == BlankLineSplit(text, <<>>)
        cleaned == [i \in 1..Len(parts) |-> CleanText(parts[i])]
    IN SelectSeq(cleaned, LAMBDA p : Len(p) > 0)

\* the chunks read in order with the overlap duplicates removed
RECURSIVE Reassembled(_, _, _)
Reassembled(chunks, i, overlap) ==
    IF i > Len(chunks) THEN <<>>
    ELSE (IF i = 1 THEN chunks[i].content
          ELSE SubSeq(chunks[i].content, overlap + 1,
                      Len(chunks[i].content)))
         \o Reassembled(chunks, i + 1, overlap)

\* C15: under every strategy the chunks contain every unit of the input:
\* the words in their order (word strategy), every sentence (sentence
\* strategy), every paragraph (paragraph strategy).
C15_ChunkCoverage ==
    (chunked.set /\ chunked.done) =>
      /\ (chunked.strategy = "word" /\ Len(InputWords(chunked.text)) > 0)
           => Reassembled(chunked.chunks, 1, chunked.overlap)
                 = InputWords(chunked.text)
      /\ chunked.strategy = "sentence"
           => \A n \in 1..Len(InputSentences(chunked.text)) :
                 \E i \in 1..Len(chunked.chunks) :
                    IsSubSeq(InputSentences(chunked.text)[n],
                             chunked.chunks[i].content)
      /\ chunked.strategy = "paragraph"
           => \A n \in 1..Len(InputParagraphs(chunked.text)) :
                 \E i \in 1..Len(chunked.chunks) :
                    IsSubSeq(InputParagraphs(chunked.text)[n],
                             chunked.chunks[i].content)

\* C16: chunk_text returns at least one chunk for every text under every
\* strategy.
C16_AtLeastOneChunk ==
    (chunked.set /\ chunked.done) => Len(chunked.chunks) >= 1

HybridCall(strategy) ==
    found.set /\ found.done /\ found.strategy = strategy

\* C17: with strategy=semantic the orchestrator returns the Semantic
\* Searcher's own list for the same query and top_k (same chunk ids, same
\* scores, same order), with strategy=keyword the Keyword Searcher's ranking
\* (same scores and order, each document position replaced by the id of the
\* chunk at that position); only the method tag is added.
C17_SingleMethod ==
    /\ HybridCall("semantic") =>
         LET own == SemanticSearch(found.semantic, found.chunk_ids,
                                   found.top_k)
         IN /\ Len(found.result) = Len(own)
            /\ \A i \in 1..Len(own) :
                  found.result[i] = <<own[i][1], own[i][2], "semantic">>
    /\ HybridCall("keyword") =>
         LET own == KeywordSearch(found.keyword, found.top_k)
         IN /\ Len(found.result) = Len(own)
            /\ \A i \in 1..Len(own) :
                  found.result[i] = <<found.chunk_ids[own[i][1] + 1],
                                      own[i][2], "keyword">>

C17_Witness ==
    /\ HybridCall("keyword")
    /\ found.chunk_ids = <<2, 1>>
    /\ found.keyword = <<1, 2>>
    /\ found.top_k = 2
    /\ found.result = <<<<1, 2, "keyword">>, <<2, 1, "keyword">>>>

\* the call with the raw semantic score of the chunk at position j raised
Raised(h, j, score) == [h EXCEPT !.semantic[j] = score]

\* C18: with the same chunks, keyword scores, weights and top_k and the raw
\* semantic scores of all other chunks unchanged, a strictly higher raw
\* semantic score of one chunk does not lower that chunk's combined score.
C18_Monotone ==
    HybridCall("hybrid") =>
      \A j \in 1..Len(found.chunk_ids) :
        \A score \in (found.semantic[j] + 1)..MaxScore :
          LET after == CombinedScores(Raised(found, j, score))
              id == found.chunk_ids[j]
          IN id \in DOMAIN found.combined
                => /\ id \in DOMAIN after
                   /\ after[id] >= found.combined[id]

C18_Witness ==
    /\ HybridCall("hybrid")
    /\ found.top_k * 2 <= Len(found.chunk_ids)
    /\ found.semantic_weight > 0
    /\ \E j \in 1..Len(found.chunk_ids) :
         \E score \in (found.semantic[j] + 1)..MaxScore :
            /\ found.chunk_ids[j] \in DOMAIN found.combined
            /\ CombinedScores(Raised(found, j, score))[found.chunk_ids[j]]
                  > found.combined[found.chunk_ids[j]]

\* the top_k nearest neighbours of the query, as (chunk id, similarity)
Neighbours(semantic, chunk_ids, top_k) ==
    LET hits == FirstK(SortPairs([i \in 1..Len(semantic) |->
                                     <<i - 1, semantic[i]>>]), top_k)
    IN [i \in 1..Len(hits) |-> <<chunk_ids[hits[i][1] + 1], hits[i][2]>>]

\* min-max normalization into [0, Unit], Unit for every score without spread
MinMax(scores) ==
    IF Len(scores) = 0 THEN <<>>
    ELSE IF SeqMax(scores) = SeqMin(scores)
    THEN [i \in 1..Len(scores) |-> Unit]
    ELSE [i \in 1..Len(scores) |->
            ((scores[i] - SeqMin(scores)) * Unit)
                \div (SeqMax(scores) - SeqMin(scores))]

\* the normalized score of a chunk id among the results of one method,
\* 0 when the method did not return it
NormalizedOf(results, id) ==
    LET scores == MinMax([i \in 1..Len(results) |-> results[i][2]])
    IN IF \E i \in 1..Len(results) : results[i][1] = id
       THEN scores[CHOOSE i \in 1..Len(results) : results[i][1] = id]
       ELSE 0

\* C19: the hybrid result is taken from 2 * top_k candidates of each method;
\* over the union of their chunk ids the score of a chunk is keyword_weight
\* times its min-max normalized keyword score plus semantic_weight times its
\* min-max normalized semantic score (0 for a method that did not return
\* it); the result holds the top_k highest, sorted descending, no chunk id
\* twice.
C19_HybridCombination ==
    HybridCall("hybrid") =>
      LET kw == KeywordSearch(found.keyword, 2 * found.top_k)
          keyword_results ==
              [i \in 1..Len(kw) |-> <<found.chunk_ids[kw[i][1] + 1],
                                      kw[i][2]>>]
          semantic_results ==
              Neighbours(found.semantic, found.chunk_ids, 2 * found.top_k)
          union == {keyword_results[i][1] : i \in 1..Len(keyword_results)}
                   \cup
                   {semantic_results[i][1] : i \in 1..Len(semantic_results)}
          combined(id) ==
              found.keyword_weight * NormalizedOf(keyword_results, id)
              + found.semantic_weight * NormalizedOf(semantic_results, id)
          result == found.result
      IN /\ Len(result) = Min(found.top_k, Cardinality(union))
         /\ \A i \in 1..Len(result) :
               /\ result[i][1] \in union
               /\ result[i][2] = combined(result[i][1])
               /\ result[i][3] = "hybrid"
         /\ \A i \in 1..Len(result) : \A j \in (i + 1)..Len(result) :
               /\ result[i][1] # result[j][1]
               /\ result[i][2] >= result[j][2]
         /\ \A id \in union :
               (\A i \in 1..Len(result) : result[i][1] # id)
                 => \A i \in 1..Len(result) : result[i][2] >= combined(id)

InvalidQuery(query) ==
    \/ Len(Strip(query)) = 0
    \/ Len(query) > MaxQueryChars
    \/ \E pattern \in DangerousPatterns : Contains(Lower(query), pattern)

\* C20: a query request whose query is empty or whitespace-only, longer
\* than 5000 characters or holds a script-injection pattern is answered
\* with 400 and reads or writes neither the cache nor the query log and
\* leaves the index store unchanged.
C20_InvalidRejected ==
    [][(queries' = queries + 1 /\ InvalidQuery(lastOp'.query))
          => /\ lastOp'.status = 400
             /\ UNCHANGED <<storeVars, globalIndex, cache, queryLog, gets,
                            puts>>]_vars

\* C21: a chunking strategy other than word, sentence or paragraph is
\* rejected with an error and no chunk list is made for the request.
C21_UnknownStrategyRejected ==
    (chunked.set /\ chunked.done /\ chunked.strategy \notin Strategies)
      => chunked.raised /\ Len(chunked.chunks) = 0

\* C22: when retrieval found sources and the generative-model call then
\* fails, the answering step returns those sources together with an error
\* marker.
C22_SourcesKeptOnModelFailure ==
    (answered.set /\ answered.llm # "answer" /\ Len(answered.retrieved) > 0)
      => answered.sources = answered.retrieved /\ answered.error # ""

\* C23: the hit counter of every entry equals the number of gets that
\* returned the entry since it was written, also when gets of the same key
\* run in different sessions at the same time.
C23_HitCountExact ==
    \A e \in cache : e.hit_count = getting.served[e.seq]

\* the sentences the chunker is given: what stands between two terminators
\* of the text it works on
GivenSentences(text) ==
    LET pieces == Pieces(GuardedText(text), <<>>)
        stripped == [i \in 1..Len(pieces) |-> StripTokens(pieces[i])]
    IN SelectSeq(stripped, LAMBDA p : Len(p) > 0)

\* C24: every chunk of the sentence strategy has at most max_length words
\* or is exactly one sentence.
C24_SentenceSizeRule ==
    (chunked.set /\ chunked.done /\ chunked.strategy = "sentence") =>
      \A i \in 1..Len(chunked.chunks) :
         \/ chunked.chunks[i].word_count <= chunked.max_length
         \/ \E n \in 1..Len(GivenSentences(chunked.text)) :
               chunked.chunks[i].content = GivenSentences(chunked.text)[n]

\* the place in the output of the result at input position i
PlaceOf(i) ==
    CHOOSE n \in 1..Len(reranked.output) :
        reranked.output[n][1] = reranked.results[i][1]

\* the input result at position i is the first of its document
FirstOfDocument(i) ==
    \A j \in 1..(i - 1) :
        reranked.document_id[reranked.results[j][1]]
            # reranked.document_id[reranked.results[i][1]]

\* C25: the re-ranker returns every input result once; the first result of
\* a document keeps its score, a later one has its score multiplied by one
\* fixed factor and does not end above its input score; the output is
\* sorted by adjusted score, highest first, ties in input order.
C25_RerankOnlyPenalizes ==
    (reranked.set /\ reranked.done) =>
      LET in == reranked.results
          out == reranked.output
          n == Len(in)
      IN /\ Len(out) = n
         /\ \A i \in 1..n : \E m \in 1..n : out[m][1] = in[i][1]
         /\ \A i \in 1..n :
               /\ FirstOfDocument(i)
                     => out[PlaceOf(i)][2] = in[i][2] * (100 * 100)
               /\ out[PlaceOf(i)][2] <= in[i][2] * (100 * 100)
         /\ \A i, j \in 1..n :
               (~FirstOfDocument(i) /\ ~FirstOfDocument(j))
                 => out[PlaceOf(i)][2] * in[j][2]
                       = out[PlaceOf(j)][2] * in[i][2]
         /\ \A i, j \in 1..n :
               i < j =>
                 \/ out[PlaceOf(i)][2] > out[PlaceOf(j)][2]
                 \/ PlaceOf(i) < PlaceOf(j)
                 \/ out[PlaceOf(i)][2] < out[PlaceOf(j)][2]
                    /\ PlaceOf(j) < PlaceOf(i)
         /\ \A m \in 1..(n - 1) : out[m][2] >= out[m + 1][2]

\* the keys the last call of the in-memory cache removed
MemLost == KeysOf(memCache.last.before) \ KeysOf(memCache.cache)

\* C26: the in-memory cache never holds more than max_size entries; set
\* evicts only when the key is not yet present and the cache is full, the
\* evicted entry is the one with the oldest write time, and no call
\* removes an entry of another key otherwise.
C26_BoundedCache ==
    memCache.set =>
      /\ Len(memCache.cache) <= MaxSize
      /\ memCache.last.op \in {"get", "delete"}
            => MemLost \subseteq {memCache.last.key}
      /\ memCache.last.op = "set" =>
            LET before == memCache.last.before
            IN /\ memCache.last.key \in KeysOf(before) => MemLost = {}
               /\ MemLost # {} =>
                     /\ Len(before) >= MaxSize
                     /\ \E i \in 1..Len(before) :
                           /\ MemLost = {before[i].key}
                           /\ \A j \in 1..Len(before) :
                                 before[i].timestamp <= before[j].timestamp

\* C27: the semantic searcher returns at most min(top_k, number of indexed
\* chunks) results, each a distinct indexed chunk with that chunk's own
\* similarity score, also when top_k exceeds the number of indexed chunks.
C27_SemanticResultsDistinct ==
    HybridCall("semantic") =>
      LET res == found.result
          n == Len(found.chunk_ids)
      IN /\ Len(res) <= (IF found.top_k < n THEN found.top_k ELSE n)
         /\ \A i, j \in 1..Len(res) : i # j => res[i][1] # res[j][1]
         /\ \A i \in 1..Len(res) :
               \E c \in 1..n : /\ found.chunk_ids[c] = res[i][1]
                               /\ found.semantic[c] = res[i][2]

C29_WindowStartAdvances ==
    [][(wordLoop.set /\ wordLoop'.iters > wordLoop.iters
                     /\ wordLoop'.pc = "loop")
          => wordLoop'.start > wordLoop.start]_vars

\* C30: a created task leaves PENDING and reaches a terminal status: a
\* pending task is started as soon as a running task finishes and capacity
\* is free, so between two handlers no task is pending while fewer than
\* max_concurrent_tasks tasks are running.
C30_PendingStartedWhenCapacityFree ==
    taskManager.set =>
      ~ /\ Cardinality(taskManager.running_tasks) < MaxConcurrentTasks
        /\ \E t \in TaskIds : taskManager.tasks[t] = "pending"

====
